---- MODULE Spec2Model ----
(***************************************************************************)
(* Exchange_Remover: the cross-mailbox search/delete engine                *)
(* (backend/src/services/exchangeService.js) and the purge orchestrator    *)
(* (backend/src/routes/exchangeRoutes.js) as state machines.               *)
(*                                                                         *)
(* Spec      - one searchMessages / deleteMessages request: directory      *)
(*             enumeration, PQueue fan-out, per-mailbox scan and delete,   *)
(*             Promise.all and aggregation.                                *)
(* FairSpec  - Spec with the fairness the event loop and the proviso       *)
(*             "every remote call eventually returns or throws" give.      *)
(* PurgeSpec - POST /purge-sender operations, their cancel requests,       *)
(*             client disconnects and child-process events.                *)
(***************************************************************************)
EXTENDS Integers, Sequences, FiniteSets, TLC

(***************************************************************************)
(* Bounds of the model                                                     *)
(***************************************************************************)
MaxMailboxes == 3
MaxConcurrency == 2
MaxLimit == 4
\* The largest number of stdout/stderr chunks one purge process writes.
MaxChunks == 2
\* The sizes below are scaled down together with the mailbox contents; they
\* keep the order of the program's values:
\* config.pageSize (50) <= config.maxPerMailbox (200) < 1000 (search) < 2000 (delete).
\* config.pageSize (EWS_PAGE_SIZE)
ConfigPageSize == 2
\* config.maxPerMailbox (DEFAULT_MAX_RESULTS)
ConfigMaxPerMailbox == 2
\* the cap on the limit in searchMessages
SearchLimitCap == 3
\* the cap on the limit in deleteMessages
DeleteLimitCap == 4

Min(a, b) == IF a <= b THEN a ELSE b
Max(a, b) == IF a >= b THEN a ELSE b

(***************************************************************************)
(* Mailbox addresses are sequences of UTF-16 code units:                   *)
(* "B" = <<66>>, "a" = <<97>>, "b" = <<98>>.                               *)
(***************************************************************************)
Addresses == { <<66>>, <<97>>, <<98>> }
NoAddress == << >>

\* The remote mailbox contents: how many items matching the query each
\* folder of each mailbox holds.
Store ==
  [a \in Addresses |->
     IF a = <<97>> THEN [inbox |-> 5, junkemail |-> 0]
     ELSE IF a = <<98>> THEN [inbox |-> 0, junkemail |-> 0]
     ELSE [inbox |-> 1, junkemail |-> 2]]

\* FOLDER_MAP: the supported (lower-cased) folder names.
FOLDER_MAP == {"inbox", "junkemail", "deleteditems", "sentitems", "drafts", "archive"}

\* String.prototype.toLowerCase on the folder names the model uses.
ToLowerCase(name) ==
  CASE name = "Inbox" -> "inbox"
    [] name = "JunkEmail" -> "junkemail"
    [] name = "Outbox" -> "outbox"
    [] OTHER -> name

\* config.defaultFolders
DefaultFolders == <<"Inbox", "JunkEmail">>

\* The folders arguments a caller may pass (<< >> is "omitted").
FolderInputs == { << >>, <<"JunkEmail">>, <<"Outbox">> }

\* The directories the enumeration call may return: sequences of distinct
\* searchable mailboxes.
RECURSIVE DistinctSeqs(_, _)
DistinctSeqs(S, n) ==
  IF n = 0 THEN { << >> }
  ELSE LET shorter == DistinctSeqs(S, n - 1)
       IN  shorter \cup { Append(s, a) : s \in { t \in shorter : Len(t) = n - 1 },
                                          a \in S }
Directories ==
  { d \in DistinctSeqs(Addresses, Min(MaxMailboxes, Cardinality(Addresses))) :
      \A p, q \in 1..Len(d) : p # q => d[p] # d[q] }

VARIABLES
  maxConcurrency,  \* config.maxConcurrency
  phase,           \* position of the request: idle, enumerating, running, returned, rejected
  op,              \* "search" or "delete"
  simulate,        \* the simulate flag after destructuring defaults
  limit,           \* per-mailbox limit
  args,            \* the caller's filters: maxPerMailbox, folders, simulate
  resolvedFolders, \* resolveFolders(folders): sequence of folder descriptors
  mailboxes,       \* the resolved directory
  task,            \* per-mailbox task state, indexed like mailboxes
  completionOrder, \* indices of the tasks in the order they settled
  deleteCalls,     \* per mailbox: id lists submitted to DeleteItems
  response,        \* the aggregate returned to the caller (or the error)
  purge,           \* per operation id: state of a purge operation
  activePurges,    \* the registry: set of registered operation ids
  logStore,        \* appended audit entries
  call,            \* a call of a pure function: its name and its arguments
  callReturns,     \* the values the call returned, in order
  clock,           \* Date.now(): the wall clock, in milliseconds
  ui               \* the state of the DeleteSection component of the frontend

engineVars == << maxConcurrency, phase, op, simulate, limit, args, resolvedFolders,
                 mailboxes, task, completionOrder, deleteCalls, response >>
purgeVars == << purge, activePurges, logStore >>
callVars == << call, callReturns, clock, ui >>
vars == << maxConcurrency, phase, op, simulate, limit, args, resolvedFolders,
           mailboxes, task, completionOrder, deleteCalls, response,
           purge, activePurges, logStore, call, callReturns, clock, ui >>

(***************************************************************************)
(* String.prototype.localeCompare (ICU root collation) on letter strings:  *)
(* letters compare case-insensitively first; on a tie the first position   *)
(* whose case differs decides, lower case before upper case.               *)
(***************************************************************************)
FoldCase(c) == IF c \in 65..90 THEN c + 32 ELSE c

RECURSIVE ComparePrimary(_, _, _)
ComparePrimary(s, t, k) ==
  IF k > Len(s) /\ k > Len(t) THEN 0
  ELSE IF k > Len(s) THEN -1
  ELSE IF k > Len(t) THEN 1
  ELSE IF FoldCase(s[k]) < FoldCase(t[k]) THEN -1
  ELSE IF FoldCase(s[k]) > FoldCase(t[k]) THEN 1
  ELSE ComparePrimary(s, t, k + 1)

RECURSIVE CompareTertiary(_, _, _)
CompareTertiary(s, t, k) ==
  IF k > Len(s) \/ k > Len(t) THEN 0
  ELSE IF s[k] = t[k] THEN CompareTertiary(s, t, k + 1)
  ELSE IF s[k] > t[k] THEN -1
  ELSE 1

LocaleCompare(s, t) ==
  LET primary == ComparePrimary(s, t, 1)
  IN  IF primary # 0 THEN primary ELSE CompareTertiary(s, t, 1)

\* Comparison of the strings by UTF-16 code units (the < operator of the language).
RECURSIVE CompareCodeUnits(_, _, _)
CompareCodeUnits(s, t, k) ==
  IF k > Len(s) /\ k > Len(t) THEN 0
  ELSE IF k > Len(s) THEN -1
  ELSE IF k > Len(t) THEN 1
  ELSE IF s[k] < t[k] THEN -1
  ELSE IF s[k] > t[k] THEN 1
  ELSE CompareCodeUnits(s, t, k + 1)

\* mailboxResults.sort((a, b) => a.mailbox.localeCompare(b.mailbox)): a stable sort.
RECURSIVE InsertSorted(_, _)
InsertSorted(sorted, r) ==
  IF sorted = << >> THEN << r >>
  ELSE LET last == sorted[Len(sorted)]
       IN  IF LocaleCompare(last.mailbox, r.mailbox) <= 0
           THEN Append(sorted, r)
           ELSE Append(InsertSorted(SubSeq(sorted, 1, Len(sorted) - 1), r), last)

RECURSIVE SortFrom(_, _, _)
SortFrom(seq, k, acc) ==
  IF k > Len(seq) THEN acc ELSE SortFrom(seq, k + 1, InsertSorted(acc, seq[k]))

SortByMailbox(seq) == SortFrom(seq, 1, << >>)

(***************************************************************************)
(* Request parameters                                                      *)
(***************************************************************************)
\* Variant: an omitted simulate counts as false.
SimulateDefault_False(arg) == arg = "true"

\* const { simulate = true } = filters: the default applies to an omitted value only.
SimulateDefault(arg) == IF arg = "omitted" THEN TRUE ELSE arg = "true"

\* The cap of the request kind on the per-mailbox limit.
LimitCap(opName) == IF opName = "search" THEN SearchLimitCap ELSE DeleteLimitCap

\* Math.max(1, Math.min(maxPerMailbox || config.maxPerMailbox, cap)); 0 is "omitted".
LimitFor(opName, maxPerMailbox) ==
  Max(1, Min(IF maxPerMailbox = 0 THEN ConfigMaxPerMailbox ELSE maxPerMailbox,
             LimitCap(opName)))

FolderSupported(folder) == ToLowerCase(folder) \in FOLDER_MAP
EnsureFolder(folder) == [name |-> folder, id |-> ToLowerCase(folder)]
TargetFolders(folders) == IF Len(folders) > 0 THEN folders ELSE DefaultFolders
ResolveFoldersThrows(folders) ==
  \E k \in 1..Len(TargetFolders(folders)) : ~FolderSupported(TargetFolders(folders)[k])
ResolveFolders(folders) ==
  [k \in 1..Len(TargetFolders(folders)) |-> EnsureFolder(TargetFolders(folders)[k])]

(***************************************************************************)
(* Per-mailbox task state                                                  *)
(***************************************************************************)
NoView == [size |-> 0, offset |-> 0, gen |-> 0]
NoResult == [kind |-> "pending"]
NullResult == [kind |-> "null"]

NewTask ==
  [pc |-> "queued", session |-> [id |-> 0, impersonatedUserId |-> NoAddress], folder |-> 0, matches |-> << >>,
   deletableIds |-> << >>, items |-> << >>, view |-> NoView, result |-> NoResult,
   settledBy |-> "none"]

InFlightStates == {"createService", "FindItems", "DeleteItems"}
InFlight(tasks) == { i \in DOMAIN tasks : tasks[i].pc \in InFlightStates }
Queued(tasks) == { i \in DOMAIN tasks : tasks[i].pc = "queued" }
Settled(tasks) == { i \in DOMAIN tasks : tasks[i].pc \in {"settled", "rejected"} }

SetMin(S) == CHOOSE x \in S : \A y \in S : x <= y

(***************************************************************************)
(* PQueue({ concurrency }): add() enqueues the job and tries to start one; *)
(* a job that ends calls next(), which frees its slot and tries again.     *)
(***************************************************************************)
\* Variant: the bound is compared with <=, admitting one job too many.
DoesConcurrentAllowAnother_OffByOne(pending, concurrency) == pending <= concurrency

DoesConcurrentAllowAnother(pending, concurrency) == pending < concurrency

TryToStartAnother(tasks, concurrency) ==
  IF Queued(tasks) # {}
     /\ DoesConcurrentAllowAnother(Cardinality(InFlight(tasks)), concurrency)
  THEN [tasks EXCEPT ![SetMin(Queued(tasks))].pc = "createService"]
  ELSE tasks

RECURSIVE AddAll(_, _, _)
AddAll(tasks, n, concurrency) ==
  IF Len(tasks) = n THEN tasks
  ELSE AddAll(TryToStartAnother(Append(tasks, NewTask), concurrency), n, concurrency)

\* The job's promise settles with value (how: the try block returned, or the
\* catch block ran) and the queue moves on.
Settle(tasks, i, value, how, concurrency) ==
  TryToStartAnother(
    [tasks EXCEPT ![i] = [NewTask EXCEPT !.pc = IF value.kind = "rejected" THEN "rejected"
                                                ELSE "settled",
                                         !.result = value,
                                         !.settledBy = how]],
    concurrency)

(***************************************************************************)
(* The job of one mailbox: the try block and the catch block               *)
(***************************************************************************)
ItemId(folderName, k) == [folder |-> folderName, index |-> k]
\* buildTransform(mailbox, folder)(item)
Transform(mailbox, folderName, id) == [id |-> id, mailbox |-> mailbox, folder |-> folderName]

\* The value the search job returns for the collected matches.
SearchOutcome(mailbox, matches) ==
  IF Len(matches) = 0 THEN NullResult
  ELSE [kind |-> "object", error |-> "", mailbox |-> mailbox,
        totalMatches |-> Len(matches), matches |-> matches]

\* The value the delete job returns for { matches, deleted }.
DeleteOutcome(mailbox, matches, deleted) ==
  IF Len(matches) = 0 THEN NullResult
  ELSE [kind |-> "object", error |-> "", mailbox |-> mailbox,
        totalMatches |-> Len(matches), deleted |-> deleted, matches |-> matches]

\* Variant: the job has no catch block, the error rejects the job's promise.
CatchBlock_Rethrow(mailbox, message) ==
  [kind |-> "rejected", error |-> message, mailbox |-> mailbox]

\* The catch block of the job: the error becomes the job's value.
CatchBlock(mailbox, message) ==
  [kind |-> "object", error |-> message, mailbox |-> mailbox]

\* Variant: the branches of the conditional are swapped.
DeletedCount_Inverted(sim, deletableIds) == IF sim THEN Len(deletableIds) ELSE 0

\* deleted: simulate ? 0 : deletableIds.length
DeletedCount(sim, deletableIds) == IF sim THEN 0 ELSE Len(deletableIds)

\* Variant: the delete call is made for an empty id list too.
ShouldDelete_EvenWhenEmpty(sim, deletableIds) == ~sim

\* if (!simulate && deletableIds.length)
ShouldDelete(sim, deletableIds) == ~sim /\ Len(deletableIds) > 0

(***************************************************************************)
(* Aggregation of the jobs' values                                         *)
(***************************************************************************)
RECURSIVE SumTotalMatches(_)
SumTotalMatches(seq) ==
  IF seq = << >> THEN 0 ELSE seq[1].totalMatches + SumTotalMatches(Tail(seq))

RECURSIVE SumDeleted(_)
SumDeleted(seq) ==
  IF seq = << >> THEN 0 ELSE seq[1].deleted + SumDeleted(Tail(seq))

\* results.forEach: a null is skipped, a value with a truthy error is a failure.
IsSkipped(r) == r.kind = "null"
\* Variant: the error marker is looked up under a name no value carries.
IsFailure_WrongField(r) == FALSE
IsFailure(r) == r.kind = "object" /\ r.error # ""
IsMailboxResult(r) == r.kind = "object" /\ r.error = ""

MailboxResults(values) == SelectSeq(values, IsMailboxResult)
Failures(values) == SelectSeq(values, IsFailure)

\* Variant: the results are returned unsorted, in directory order.
ResultOrder_Unsorted(mailboxResults) == mailboxResults

\* The order of results in the returned aggregate.
ResultOrder(mailboxResults) == SortByMailbox(mailboxResults)

\* Variant: only the mailboxes whose job did not fail are counted.
ScannedCount_WithoutFailures(directory) ==
  Cardinality({ i \in DOMAIN task : task[i].settledBy # "catch" })

\* summary.totalMailboxesScanned
ScannedCount(directory) == Len(directory)

SearchAggregate(directory, values) ==
  [kind |-> "aggregate",
   summary |-> [totalMailboxesScanned |-> ScannedCount(directory),
                mailboxesWithMatches |-> Len(MailboxResults(values)),
                totalMessages |-> SumTotalMatches(MailboxResults(values))],
   results |-> ResultOrder(MailboxResults(values)),
   failures |-> Failures(values)]

DeleteAggregate(directory, values, sim) ==
  [kind |-> "aggregate",
   summary |-> [totalMailboxesScanned |-> ScannedCount(directory),
                mailboxesWithMatches |-> Len(MailboxResults(values)),
                totalMatches |-> SumTotalMatches(MailboxResults(values)),
                totalDeleted |-> SumDeleted(MailboxResults(values)),
                simulate |-> sim],
   results |-> ResultOrder(MailboxResults(values)),
   failures |-> Failures(values)]

\* The early return for an empty directory.
EmptyAggregate(opName, sim) ==
  IF opName = "search"
  THEN [kind |-> "aggregate",
        summary |-> [totalMailboxesScanned |-> 0, mailboxesWithMatches |-> 0,
                     totalMessages |-> 0],
        results |-> << >>, failures |-> << >>]
  ELSE [kind |-> "aggregate",
        summary |-> [totalMailboxesScanned |-> 0, mailboxesWithMatches |-> 0,
                     totalMatches |-> 0, totalDeleted |-> 0, simulate |-> sim],
        results |-> << >>, failures |-> << >>]

NoResponse == [kind |-> "none"]
ErrorResponse(status, message) == [kind |-> "error", status |-> status, message |-> message]
NoArgs == [maxPerMailbox |-> 0, folders |-> << >>, simulate |-> "omitted"]

(***************************************************************************)
(* Initial state: the server is up, no request has arrived.                *)
(***************************************************************************)
EngineInit ==
  /\ phase = "idle"
  /\ op = "none"
  /\ simulate = TRUE
  /\ limit = 0
  /\ args = NoArgs
  /\ resolvedFolders = << >>
  /\ mailboxes = << >>
  /\ task = << >>
  /\ completionOrder = << >>
  /\ deleteCalls = << >>
  /\ response = NoResponse

(***************************************************************************)
(* searchMessages / deleteMessages up to the first await                   *)
(***************************************************************************)
SearchMessages(maxPerMailbox, folders) ==
  /\ phase = "idle"
  /\ phase' = "enumerating"
  /\ op' = "search"
  /\ args' = [maxPerMailbox |-> maxPerMailbox, folders |-> folders, simulate |-> "omitted"]
  /\ UNCHANGED << maxConcurrency, simulate, limit, resolvedFolders, mailboxes, task,
                  completionOrder, deleteCalls, response >>
  /\ UNCHANGED << purgeVars, callVars >>

DeleteMessages(maxPerMailbox, folders, simulateArg) ==
  /\ phase = "idle"
  /\ phase' = "enumerating"
  /\ op' = "delete"
  /\ args' = [maxPerMailbox |-> maxPerMailbox, folders |-> folders, simulate |-> simulateArg]
  /\ simulate' = SimulateDefault(simulateArg)
  /\ UNCHANGED << maxConcurrency, limit, resolvedFolders, mailboxes, task,
                  completionOrder, deleteCalls, response >>
  /\ UNCHANGED << purgeVars, callVars >>

(***************************************************************************)
(* getSearchableMailboxes settles; the request resolves the folders and    *)
(* the limit, and hands one job per mailbox to the queue.                  *)
(***************************************************************************)
GetSearchableMailboxesReturns(directory) ==
  /\ phase = "enumerating"
  /\ IF ResolveFoldersThrows(args.folders)
     THEN /\ phase' = "rejected"
          /\ response' = ErrorResponse(400, "Unsupported folder specified")
          /\ UNCHANGED << limit, resolvedFolders, mailboxes, task, deleteCalls >>
     ELSE /\ mailboxes' = directory
          /\ resolvedFolders' = ResolveFolders(args.folders)
          /\ limit' = LimitFor(op, args.maxPerMailbox)
          /\ IF Len(directory) = 0
             THEN /\ phase' = "returned"
                  /\ response' = EmptyAggregate(op, simulate)
                  /\ UNCHANGED << task, deleteCalls >>
             ELSE /\ phase' = "running"
                  /\ task' = AddAll(<< >>, Len(directory), maxConcurrency)
                  /\ deleteCalls' = [i \in 1..Len(directory) |-> << >>]
                  /\ UNCHANGED response
  /\ UNCHANGED << maxConcurrency, op, simulate, args, completionOrder >>
  /\ UNCHANGED << purgeVars, callVars >>

GetSearchableMailboxesThrows ==
  /\ phase = "enumerating"
  /\ phase' = "rejected"
  /\ response' = ErrorResponse(502, "Unable to enumerate searchable mailboxes")
  /\ UNCHANGED << maxConcurrency, op, simulate, limit, args, resolvedFolders, mailboxes,
                  task, completionOrder, deleteCalls >>
  /\ UNCHANGED << purgeVars, callVars >>

(***************************************************************************)
(* One job: collectMatchesForMailbox / deleteForMailbox inside the job's   *)
(* try/catch.  Each action is a remote call settling together with the     *)
(* continuation that runs up to the next await.                            *)
(***************************************************************************)
\* The job's promise settles.
SettleWith(i, value, how) ==
  /\ task' = Settle(task, i, value, how, maxConcurrency)
  /\ completionOrder' = Append(completionOrder, i)
  /\ UNCHANGED deleteCalls

\* After the folder loop: return the matches (search), or delete and return.
FinishScan(i, t) ==
  IF op = "search"
  THEN SettleWith(i, SearchOutcome(mailboxes[i], t.matches), "return")
  ELSE IF ShouldDelete(simulate, t.deletableIds)
       THEN /\ task' = [task EXCEPT ![i] = [t EXCEPT !.pc = "DeleteItems", !.folder = 0,
                                                     !.items = << >>, !.view = NoView]]
            /\ deleteCalls' = [deleteCalls EXCEPT ![i] = Append(@, t.deletableIds)]
            /\ UNCHANGED completionOrder
       ELSE SettleWith(i, DeleteOutcome(mailboxes[i], t.matches,
                                        DeletedCount(simulate, t.deletableIds)), "return")

\* new ItemView(Math.min(limit, config.pageSize))
ViewSize(remaining) == Min(remaining, ConfigPageSize)

\* Variant: every folder is scanned with the whole limit.
RemainingCapacity_Full(lim, matches) == lim

\* limit - matches.length: the limit handed to findItemsInFolder.
RemainingCapacity(lim, matches) == lim - Len(matches)

\* The folder loop arrives at folder k: findItemsInFolder(limit - matches.length).
EnterFolder(i, t, k) ==
  IF k > Len(resolvedFolders) \/ RemainingCapacity(limit, t.matches) <= 0
  THEN FinishScan(i, t)
  ELSE /\ task' = [task EXCEPT ![i] =
                     [t EXCEPT !.pc = "FindItems", !.folder = k, !.items = << >>,
                               !.view = [size |-> ViewSize(RemainingCapacity(limit, t.matches)),
                                         offset |-> 0, gen |-> 0]]]
       /\ UNCHANGED << completionOrder, deleteCalls >>

\* if (matches.length >= limit) break
LimitReached(matches, lim) == Len(matches) >= lim

\* Variant: one service object serves every job.
NewExchangeService_Shared(i) == [id |-> 1, impersonatedUserId |-> NoAddress]

\* new ExchangeService(...) in createService: a fresh object for the call of job i.
NewExchangeService(i) == [id |-> i, impersonatedUserId |-> NoAddress]

\* service.ImpersonatedUserId = new ImpersonatedUserId(SmtpAddress, mailbox)
impersonateMailbox(service, mailbox) == [service EXCEPT !.impersonatedUserId = mailbox]

CreateServiceReturns(i) ==
  /\ i \in DOMAIN task
  /\ task[i].pc = "createService"
  /\ EnterFolder(i, [task[i] EXCEPT
                       !.session = impersonateMailbox(NewExchangeService(i), mailboxes[i])], 1)
  /\ UNCHANGED << maxConcurrency, phase, op, simulate, limit, args, resolvedFolders,
                  mailboxes, response >>
  /\ UNCHANGED << purgeVars, callVars >>

CreateServiceThrows(i) ==
  /\ i \in DOMAIN task
  /\ task[i].pc = "createService"
  /\ SettleWith(i, CatchBlock(mailboxes[i], "Failed to initialise Exchange Web Services client"), "catch")
  /\ UNCHANGED << maxConcurrency, phase, op, simulate, limit, args, resolvedFolders,
                  mailboxes, response >>
  /\ UNCHANGED << purgeVars, callVars >>

\* The items a page of n items at the view's offset carries.
PageItems(folderId, offset, n) == [j \in 1..n |-> ItemId(folderId, offset + j)]

\* appendResults: push the page's items while items.length < limit.
AppendResults(items, page, folderLimit) ==
  items \o SubSeq(page, 1, Min(Len(page), Max(0, folderLimit - Len(items))))

\* while (results?.MoreAvailable && items.length < limit)
ScanContinues(moreAvailable, items, folderLimit) == moreAvailable /\ Len(items) < folderLimit

\* FindItems returns a page of n items (n = 0 with more available is an empty page).
FindItemsReturns(i, n) ==
  /\ i \in DOMAIN task
  /\ task[i].pc = "FindItems"
  /\ LET t == task[i]
         folder == resolvedFolders[t.folder]
         total == Store[mailboxes[i]][folder.id]
         folderLimit == RemainingCapacity(limit, t.matches)
         moreAvailable == t.view.offset + n < total
         nextPageOffset == t.view.offset + n
         items == AppendResults(t.items, PageItems(folder.id, t.view.offset, n), folderLimit)
     IN  /\ n <= Min(t.view.size, total - t.view.offset)
         /\ IF ScanContinues(moreAvailable, items, folderLimit)
            THEN /\ task' = [task EXCEPT ![i] =
                               [t EXCEPT !.items = items,
                                         !.view = [size |-> ViewSize(folderLimit - Len(items)),
                                                   offset |-> nextPageOffset,
                                                   gen |-> 1 - t.view.gen]]]
                 /\ UNCHANGED << completionOrder, deleteCalls >>
            ELSE LET returned == SubSeq(items, 1, Min(Len(items), folderLimit))
                     after == [t EXCEPT
                                 !.matches = @ \o [j \in 1..Len(returned) |->
                                                     Transform(mailboxes[i], folder.name, returned[j])],
                                 !.deletableIds = IF op = "delete" THEN @ \o returned ELSE @]
                 IN  IF LimitReached(after.matches, limit)
                     THEN FinishScan(i, after)
                     ELSE EnterFolder(i, after, t.folder + 1)
  /\ UNCHANGED << maxConcurrency, phase, op, simulate, limit, args, resolvedFolders,
                  mailboxes, response >>
  /\ UNCHANGED << purgeVars, callVars >>

FindItemsThrows(i) ==
  /\ i \in DOMAIN task
  /\ task[i].pc = "FindItems"
  /\ SettleWith(i, CatchBlock(mailboxes[i], "Failed to search mailbox folder"), "catch")
  /\ UNCHANGED << maxConcurrency, phase, op, simulate, limit, args, resolvedFolders,
                  mailboxes, response >>
  /\ UNCHANGED << purgeVars, callVars >>

DeleteItemsReturns(i) ==
  /\ i \in DOMAIN task
  /\ task[i].pc = "DeleteItems"
  /\ SettleWith(i, DeleteOutcome(mailboxes[i], task[i].matches,
                                 DeletedCount(simulate, task[i].deletableIds)), "return")
  /\ UNCHANGED << maxConcurrency, phase, op, simulate, limit, args, resolvedFolders,
                  mailboxes, response >>
  /\ UNCHANGED << purgeVars, callVars >>

DeleteItemsThrows(i) ==
  /\ i \in DOMAIN task
  /\ task[i].pc = "DeleteItems"
  /\ SettleWith(i, CatchBlock(mailboxes[i], "Failed to delete messages"), "catch")
  /\ UNCHANGED << maxConcurrency, phase, op, simulate, limit, args, resolvedFolders,
                  mailboxes, response >>
  /\ UNCHANGED << purgeVars, callVars >>

\* Some remote call of job i returns or throws.
RemoteCallSettles(i) ==
  \/ CreateServiceReturns(i)
  \/ CreateServiceThrows(i)
  \/ \E n \in 0..ConfigPageSize : FindItemsReturns(i, n)
  \/ FindItemsThrows(i)
  \/ DeleteItemsReturns(i)
  \/ DeleteItemsThrows(i)

(***************************************************************************)
(* await Promise.all(tasks) settles and the aggregate is assembled.        *)
(***************************************************************************)
PromiseAllSettled ==
  \/ \E i \in DOMAIN task : task[i].pc = "rejected"
  \/ \A i \in DOMAIN task : task[i].pc = "settled"

Aggregate ==
  /\ phase = "running"
  /\ PromiseAllSettled
  /\ IF \E i \in DOMAIN task : task[i].pc = "rejected"
     THEN /\ phase' = "rejected"
          /\ response' = ErrorResponse(502, "mailbox task rejected")
     ELSE /\ phase' = "returned"
          /\ LET values == [i \in DOMAIN task |-> task[i].result]
             IN  response' = IF op = "search"
                             THEN SearchAggregate(mailboxes, values)
                             ELSE DeleteAggregate(mailboxes, values, simulate)
  /\ UNCHANGED << maxConcurrency, op, simulate, limit, args, resolvedFolders, mailboxes,
                  task, completionOrder, deleteCalls >>
  /\ UNCHANGED << purgeVars, callVars >>

(***************************************************************************)
(* The purge orchestrator: POST /purge-sender, POST /purge-sender/cancel   *)
(***************************************************************************)
\* The operation ids (req.requestId) of the purge requests the model follows.
OpIds == {"op-1", "op-2"}

\* child.exitCode / the code argument of "close" when it is null.
NullCode == -1
\* The exit codes a process may end with, and the errno of a failed spawn.
ExitCodes == {0, 1}
SpawnErrno == -2

\* path.join(os.tmpdir(), `EmailDeletion_${Date.now()}.log`)
LogPath(now) == "tmp/EmailDeletion_" \o ToString(now) \o ".log"

NewPurge ==
  [state |-> "idle",            \* idle, spawned, persisting, done
   proc |-> "none",             \* none, running, exited, unlaunchable
   logPath |-> "",             \* the value of -LogFile
   simulate |-> TRUE,
   wantsStream |-> FALSE,
   connected |-> FALSE,         \* the initiating client connection is open
   child |-> FALSE,             \* purgeContext.child is set
   cancelled |-> FALSE,         \* purgeContext.cancelled
   cancelReason |-> "null",     \* purgeContext.cancelReason
   exitCode |-> NullCode,       \* child.exitCode
   signalCode |-> "null",       \* child.signalCode
   signalled |-> FALSE,         \* a termination signal was delivered to the process
   errorEmitted |-> FALSE,      \* the "error" event has been emitted
   wasCancelled |-> FALSE,      \* the close handler's snapshot of the flag
   status |-> "none",           \* the close handler's status
   events |-> << >>,            \* what was delivered to the caller, in order
   stdout |-> << >>,            \* output.stdout
   stderr |-> << >>,            \* output.stderr
   arrivals |-> << >>,          \* the chunks the pipes delivered, in order of arrival
   cancelAnswer |-> "none",     \* the answer to the latest cancel request for this id
   killCalls |-> 0,             \* the child.kill() calls of the latest cancel request
                                \* or connection close
   closedWhileRunning |-> FALSE, \* the connection of a streaming purge closed while
                                \* its process was running
   logEntry |-> << >>,          \* the audit entry the close handler assembled
   persistedLog |-> << >>]      \* persistedLog once appendLogEntry has settled

\* The byte chunks a pipe may deliver: "x" followed by a two-byte character,
\* and the first byte of a two-byte character on its own.
ChunkData == { <<120, 195, 169>>, <<195>> }
ReplacementChar == 65533

\* data.toString(): UTF-8 decoding of one chunk into UTF-16 code units; an
\* incomplete or stray byte decodes to the replacement character.
RECURSIVE DataToString(_)
DataToString(bytes) ==
  IF bytes = << >> THEN << >>
  ELSE IF bytes[1] < 128 THEN << bytes[1] >> \o DataToString(Tail(bytes))
  ELSE IF bytes[1] = 195 /\ Len(bytes) >= 2 /\ bytes[2] = 169
       THEN << 233 >> \o DataToString(Tail(Tail(bytes)))
  ELSE << ReplacementChar >> \o DataToString(Tail(bytes))

\* Variant: the texts are joined last to first.
RECURSIVE Join_Reversed(_)
Join_Reversed(texts) ==
  IF texts = << >> THEN << >> ELSE Join_Reversed(Tail(texts)) \o Head(texts)

\* output.stdout.join(""): the texts one after the other.
RECURSIVE Join(_)
Join(texts) == IF texts = << >> THEN << >> ELSE Head(texts) \o Join(Tail(texts))

(***************************************************************************)
(* The mining of the accumulated stdout text in the close handler.  A text *)
(* is a sequence of UTF-16 code units.                                     *)
(***************************************************************************)
\* What "." does not match, what \d matches, what trim() strips.
LineTerminators == {10, 13, 8232, 8233}
Digits == 48..57
WhiteSpace == {9, 10, 11, 12, 13, 32, 160, 5760, 8232, 8233, 8239, 8287, 12288, 65279}
              \cup (8192..8202)
Comma == 44

\* The literal parts of the three patterns: "[INFO] Mailbox ", ": ",
\* " active items", "[INFO] Effected Emails: ", "Deleted ", " items from ".
PatternText ==
  [mailboxPrefix |-> << 91, 73, 78, 70, 79, 93, 32, 77, 97, 105, 108, 98, 111, 120, 32 >>,
   colonSpace |-> << 58, 32 >>,
   activeItems |-> << 32, 97, 99, 116, 105, 118, 101, 32, 105, 116, 101, 109, 115 >>,
   effectedPrefix |-> << 91, 73, 78, 70, 79, 93, 32, 69, 102, 102, 101, 99, 116, 101, 100,
                         32, 69, 109, 97, 105, 108, 115, 58, 32 >>,
   deletedPrefix |-> << 68, 101, 108, 101, 116, 101, 100, 32 >>,
   itemsFrom |-> << 32, 105, 116, 101, 109, 115, 32, 102, 114, 111, 109, 32 >>]

LeastOf(indices) == CHOOSE e \in indices : \A other \in indices : e <= other

\* The pattern is in the text at index i.
MatchesAt(text, i, pattern) ==
  /\ i >= 1
  /\ i + Len(pattern) - 1 <= Len(text)
  /\ \A k \in 1..Len(pattern) : text[i + k - 1] = pattern[k]

\* The first index at or after i that holds a line terminator (or is past the end).
LineEnd(text, i) ==
  LeastOf({k \in i..Len(text) : text[k] \in LineTerminators} \cup {Max(i, Len(text) + 1)})

\* The first index at or after i that holds no digit (or is past the end).
DigitsEnd(text, i) ==
  LeastOf({k \in i..Len(text) : text[k] \notin Digits} \cup {Max(i, Len(text) + 1)})

\* text.slice(from, to), with indices from 1 and to exclusive.
Slice(text, from, to) == SubSeq(text, from, to - 1)

\* String.prototype.trim
Trim(text) ==
  LET kept == {k \in 1..Len(text) : text[k] \notin WhiteSpace}
  IN  IF kept = {} THEN << >>
      ELSE SubSeq(text, LeastOf(kept), CHOOSE e \in kept : \A other \in kept : e >= other)

\* Variant: the address is appended even when it is present.
SetAdd_NoDedup(set, value) == Append(set, value)

\* Set.prototype.add: a Set keeps insertion order and each value once.
SetAdd(set, value) ==
  IF \E k \in 1..Len(set) : set[k] = value THEN set ELSE Append(set, value)

\* /\[INFO\] Mailbox (.*?): \d+ active items/ tried at index i: where the lazy
\* group may end so that the rest of the pattern follows.
Regex1GroupEnds(text, i) ==
  LET start == i + Len(PatternText.mailboxPrefix)
  IN  {j \in start..LineEnd(text, start) :
         /\ MatchesAt(text, j, PatternText.colonSpace)
         /\ DigitsEnd(text, j + Len(PatternText.colonSpace)) > j + Len(PatternText.colonSpace)
         /\ MatchesAt(text, DigitsEnd(text, j + Len(PatternText.colonSpace)), PatternText.activeItems)}

Regex1MatchesAt(text, i) ==
  MatchesAt(text, i, PatternText.mailboxPrefix) /\ Regex1GroupEnds(text, i) # {}

\* while ((match1 = regex1.exec(stdoutText)) !== null) add(match1[1].trim())
RECURSIVE Regex1Loop(_, _, _)
Regex1Loop(text, lastIndex, set) ==
  LET at == {i \in lastIndex..Len(text) : Regex1MatchesAt(text, i)}
  IN  IF at = {} THEN set
      ELSE LET i == LeastOf(at)
               start == i + Len(PatternText.mailboxPrefix)
               j == LeastOf(Regex1GroupEnds(text, i))
               end == DigitsEnd(text, j + Len(PatternText.colonSpace)) + Len(PatternText.activeItems)
           IN  Regex1Loop(text, end, SetAdd(set, Trim(Slice(text, start, j))))

\* match2[1].split(','): the pieces between the commas.
RECURSIVE Split(_)
Split(text) ==
  LET commas == {k \in 1..Len(text) : text[k] = Comma}
  IN  IF commas = {} THEN << text >>
      ELSE LET k == LeastOf(commas)
           IN  << SubSeq(text, 1, k - 1) >> \o Split(SubSeq(text, k + 1, Len(text)))

\* forEach(email => affectedMailboxes.add(email.trim()))
RECURSIVE AddAllTrimmed(_, _)
AddAllTrimmed(set, pieces) ==
  IF pieces = << >> THEN set
  ELSE AddAllTrimmed(SetAdd(set, Trim(Head(pieces))), Tail(pieces))

\* stdoutText.match(/\[INFO\] Effected Emails: (.*)/): the first match only.
Regex2Match(text, set) ==
  LET at == {i \in 1..Len(text) : MatchesAt(text, i, PatternText.effectedPrefix)}
  IN  IF at = {} THEN set
      ELSE LET i == LeastOf(at)
               start == i + Len(PatternText.effectedPrefix)
               group == Slice(text, start, LineEnd(text, start))
           IN  IF group = << >> THEN set
               ELSE AddAllTrimmed(set, Split(group))

\* /Deleted ([1-9]\d*) items from (.*)/ tried at index i.
Regex3MatchesAt(text, i) ==
  LET digits == i + Len(PatternText.deletedPrefix)
  IN  /\ MatchesAt(text, i, PatternText.deletedPrefix)
      /\ digits <= Len(text)
      /\ text[digits] \in (Digits \ {48})
      /\ MatchesAt(text, DigitsEnd(text, digits), PatternText.itemsFrom)

\* while ((match3 = regex3.exec(stdoutText)) !== null) add(match3[2].trim())
RECURSIVE Regex3Loop(_, _, _)
Regex3Loop(text, lastIndex, set) ==
  LET at == {i \in lastIndex..Len(text) : Regex3MatchesAt(text, i)}
  IN  IF at = {} THEN set
      ELSE LET i == LeastOf(at)
               start == DigitsEnd(text, i + Len(PatternText.deletedPrefix)) + Len(PatternText.itemsFrom)
               end == LineEnd(text, start)
           IN  Regex3Loop(text, end, SetAdd(set, Trim(Slice(text, start, end))))

\* Array.from(affectedMailboxes) after the three passes over stdoutText.
AffectedMailboxes(stdoutText) ==
  Regex3Loop(stdoutText, 1, Regex2Match(stdoutText, Regex1Loop(stdoutText, 1, << >>)))

\* What sse(event, data) writes, and what res.json / next(error) send.
Event(name) == [event |-> name]
ChunkEvent(stream, text) == [event |-> stream, chunk |-> text]


\* What the script writes on stdout, as the byte chunks the pipe may deliver
\* (ASCII only): whole lines, and one line cut in two.
\* "user1@x.com"
User1 ==
  << 117, 115, 101, 114, 49, 64, 120, 46, 99, 111, 109 >>
\* "user2@x.com"
User2 ==
  << 117, 115, 101, 114, 50, 64, 120, 46, 99, 111, 109 >>
\* The chunks: "[INFO] Mailbox user1@x.com: 3 active items\n",
\* "Deleted 3 items from user1@x.com\n",
\* "[INFO] Effected Emails: user1@x.com, user2@x.com\r\n",
\* "Deleted 0 items from user2@x.com\n", and "[INFO] Mailbox user2" followed
\* by "@x.com: 12 active items\n".
ReportLine ==
  [mailboxUser1 |->
     << 91, 73, 78, 70, 79, 93, 32, 77, 97, 105, 108, 98, 111, 120, 32, 117,
        115, 101, 114, 49, 64, 120, 46, 99, 111, 109, 58, 32, 51, 32, 97, 99,
        116, 105, 118, 101, 32, 105, 116, 101, 109, 115, 10 >>,
   deletedUser1 |->
     << 68, 101, 108, 101, 116, 101, 100, 32, 51, 32, 105, 116, 101, 109, 115,
        32, 102, 114, 111, 109, 32, 117, 115, 101, 114, 49, 64, 120, 46, 99,
        111, 109, 10 >>,
   effected |->
     << 91, 73, 78, 70, 79, 93, 32, 69, 102, 102, 101, 99, 116, 101, 100, 32,
        69, 109, 97, 105, 108, 115, 58, 32, 117, 115, 101, 114, 49, 64, 120,
        46, 99, 111, 109, 44, 32, 117, 115, 101, 114, 50, 64, 120, 46, 99, 111,
        109, 13, 10 >>,
   deletedNone |->
     << 68, 101, 108, 101, 116, 101, 100, 32, 48, 32, 105, 116, 101, 109, 115,
        32, 102, 114, 111, 109, 32, 117, 115, 101, 114, 50, 64, 120, 46, 99,
        111, 109, 10 >>,
   mailboxUser2Head |->
     << 91, 73, 78, 70, 79, 93, 32, 77, 97, 105, 108, 98, 111, 120, 32, 117,
        115, 101, 114, 50 >>,
   mailboxUser2Tail |->
     << 64, 120, 46, 99, 111, 109, 58, 32, 49, 50, 32, 97, 99, 116, 105, 118,
        101, 32, 105, 116, 101, 109, 115, 10 >>]

OutputChunks == {ReportLine[line] : line \in DOMAIN ReportLine}

PurgeInit ==
  /\ purge = [o \in OpIds |-> NewPurge]
  /\ activePurges = {}
  /\ logStore = << >>

\* Variant: the exit code is looked at before the cancellation flag.
StatusOf_ExitCodeFirst(wasCancelled, exitCode, sim) ==
  IF exitCode = 0 THEN (IF sim THEN "simulated" ELSE "completed")
  ELSE IF wasCancelled THEN "cancelled"
  ELSE "failed"

\* The status the close handler assigns.
StatusOf(wasCancelled, exitCode, sim) ==
  IF wasCancelled THEN "cancelled"
  ELSE IF exitCode = 0 THEN (IF sim THEN "simulated" ELSE "completed")
  ELSE "failed"

\* exitCode = typeof code === "number" ? code : null
ExitCodeOf(code) == IF code = NullCode THEN NullCode ELSE code

\* Variant: the reason is overwritten.
FirstReason_LastWins(current, reason) == reason

\* purgeContext.cancelReason || reason
FirstReason(current, reason) == IF current = "null" THEN reason ELSE current

\* spawn() of an executable that cannot be launched queues the "error" event
\* with process.nextTick: it is emitted right after the route handler returns,
\* before any other event is handled.
\* Variant: other events may be handled before the queued "error" event.
NoTickPending_Ignored == TRUE

NoTickPending ==
  \A o \in OpIds : ~(purge[o].proc = "unlaunchable" /\ ~purge[o].errorEmitted)

\* Variant: the context is never entered in the registry.
Register_Skipped(registry, o) == registry

\* Variant: the registry keeps the latest context only.
Register_Replacing(registry, o) == {o}

\* activePurges.set(req.requestId, purgeContext): a fresh id per request.
Register(registry, o) == registry \cup {o}

\* The handler of POST /purge-sender up to its end: spawn, register, attach handlers.
StartPurge(o, sim, stream, launchable) ==
  /\ NoTickPending
  /\ purge[o].state = "idle"
  /\ purge' = [purge EXCEPT ![o] =
                 [@ EXCEPT !.state = "spawned",
                           !.logPath = LogPath(clock),
                           !.proc = IF launchable THEN "running" ELSE "unlaunchable",
                           !.simulate = sim,
                           !.wantsStream = stream,
                           !.connected = TRUE,
                           !.child = TRUE,
                           !.events = IF stream THEN << Event("start") >> ELSE << >>]]
  /\ activePurges' = Register(activePurges, o)
  /\ UNCHANGED logStore
  /\ UNCHANGED << engineVars, callVars >>

\* child.kill(): TRUE when the signal was delivered.
KillDelivers(p, accepted) == p.proc = "running" /\ accepted

\* Variant: the entry is left in the registry.
Deregister_Noop(registry, o) == registry

\* activePurges.delete(requestId)
Deregister(registry, o) == registry \ {o}

\* Variant: every id is taken to be registered.
HasContext_Always(o) == TRUE

\* context && context.child, for context = activePurges.get(targetRequestId)
HasContext(o) == o \in activePurges /\ purge[o].child

\* Variant: the process is always taken to have finished.
HasExitCode_Always(p) == TRUE

\* context.child.exitCode !== null
HasExitCode(p) == p.exitCode # NullCode

\* Variant: the answer does not depend on what kill() returned.
CancelStatus_AlwaysCancelling(killed) == "cancelling"

\* killed ? "cancelling" : "pending"
CancelStatus(killed) == IF killed THEN "cancelling" ELSE "pending"

\* POST /purge-sender/cancel for operation id o.
CancelRequest(o, accepted) ==
  /\ NoTickPending
  /\ IF ~HasContext(o)
     THEN /\ purge' = [purge EXCEPT ![o] =
                         [@ EXCEPT !.cancelAnswer = "not-found", !.killCalls = 0]]
          /\ UNCHANGED activePurges
     ELSE IF HasExitCode(purge[o])
     THEN /\ activePurges' = Deregister(activePurges, o)
          /\ purge' = [purge EXCEPT ![o] =
                         [@ EXCEPT !.cancelAnswer = "already-finished", !.killCalls = 0]]
     ELSE /\ purge' = [purge EXCEPT ![o] =
                         [@ EXCEPT !.cancelled = TRUE,
                                   !.cancelReason = FirstReason(@, "user_requested"),
                                   !.signalled = @ \/ KillDelivers(purge[o], accepted),
                                   !.killCalls = 1,
                                   !.cancelAnswer =
                                      CancelStatus(KillDelivers(purge[o], accepted))]]
          /\ UNCHANGED activePurges
  /\ UNCHANGED logStore
  /\ UNCHANGED << engineVars, callVars >>

\* Variant: the close of the connection cancels every kind of request.
DisconnectCancels_AnyRequest(p) == ~HasExitCode(p)

\* if (wantsStream && child.exitCode === null)
DisconnectCancels(p) == p.wantsStream /\ ~HasExitCode(p)

\* req.on("close"): the initiating connection closes.
ClientDisconnect(o, accepted) ==
  /\ NoTickPending
  /\ purge[o].state # "idle"
  /\ purge[o].connected
  /\ purge' = [purge EXCEPT ![o] =
                 IF DisconnectCancels(purge[o])
                 THEN [@ EXCEPT !.connected = FALSE,
                                !.cancelled = TRUE,
                                !.cancelReason = FirstReason(@, "connection_closed"),
                                !.signalled = @ \/ KillDelivers(purge[o], accepted),
                                !.killCalls = 1,
                                !.closedWhileRunning = (purge[o].proc = "running")]
                 ELSE [@ EXCEPT !.connected = FALSE, !.killCalls = 0]]
  /\ UNCHANGED << activePurges, logStore >>
  /\ UNCHANGED << engineVars, callVars >>

\* The process ends by itself with an exit code.
ProcessExits(o, code) ==
  /\ NoTickPending
  /\ purge[o].proc = "running"
  /\ purge' = [purge EXCEPT ![o] = [@ EXCEPT !.proc = "exited", !.exitCode = code]]
  /\ UNCHANGED << activePurges, logStore >>
  /\ UNCHANGED << engineVars, callVars >>

\* The process is ended by a signal (the one kill() delivered, or another).
ProcessKilled(o) ==
  /\ NoTickPending
  /\ purge[o].proc = "running"
  /\ purge' = [purge EXCEPT ![o] = [@ EXCEPT !.proc = "exited", !.signalCode = "SIGTERM"]]
  /\ UNCHANGED << activePurges, logStore >>
  /\ UNCHANGED << engineVars, callVars >>

\* child.on("error"): the executable could not be launched.
ChildError(o) ==
  /\ purge[o].state = "spawned"
  /\ purge[o].proc = "unlaunchable"
  /\ ~purge[o].errorEmitted
  /\ activePurges' = Deregister(activePurges, o)
  /\ purge' = [purge EXCEPT ![o] =
                 [@ EXCEPT !.errorEmitted = TRUE,
                           !.child = FALSE,
                           !.exitCode = SpawnErrno,
                           !.events = Append(@, IF purge[o].wantsStream
                                                THEN Event("error")
                                                ELSE Event("next(error)"))]]
  /\ UNCHANGED logStore
  /\ UNCHANGED << engineVars, callVars >>

\* The audit entry the close handler assembles.
LogEntry(o, p, status, wasCancelled) ==
  [requestId |-> o, simulate |-> p.simulate, exitCode |-> ExitCodeOf(p.exitCode),
   exitSignal |-> p.signalCode, status |-> status, cancelled |-> wasCancelled,
   cancelReason |-> p.cancelReason,
   stdoutLength |-> Len(Join(p.stdout)), stderrLength |-> Len(Join(p.stderr)),
   affectedMailboxes |-> AffectedMailboxes(Join(p.stdout))]

\* Variant: the line is written twice.
AppendRecord_Twice(store, entry) ==
  Append(Append(store, [id |-> Len(store) + 1] @@ entry),
         [id |-> Len(store) + 2] @@ entry)

\* appendLogEntry: the entry gets an id and is appended as one line.
AppendRecord(store, entry) == Append(store, [id |-> Len(store) + 1] @@ entry)

\* The payload of the end event.
EndEvent(p, persistedLog) ==
  [event |-> "end", exitCode |-> ExitCodeOf(p.exitCode), status |-> p.status,
   cancelled |-> p.wasCancelled, cancelReason |-> p.cancelReason,
   logEntry |-> persistedLog]

\* The body of the synchronous response.
Response(p, persistedLog) ==
  [event |-> "response", exitCode |-> ExitCodeOf(p.exitCode), status |-> p.status,
   cancelled |-> p.wasCancelled, cancelReason |-> p.cancelReason,
   stdout |-> Join(p.stdout), stderr |-> Join(p.stderr),
   logEntry |-> persistedLog]

\* child.stdout.on("data"): buffer the text and, when streaming, emit it.
StdoutData(o, data) ==
  /\ NoTickPending
  /\ purge[o].state = "spawned"
  /\ purge[o].proc \in {"running", "exited"}
  /\ Len(purge[o].arrivals) < MaxChunks
  /\ purge' = [purge EXCEPT ![o] =
                 [@ EXCEPT !.stdout = Append(@, DataToString(data)),
                           !.arrivals = Append(@, [stream |-> "stdout", data |-> data]),
                           !.events = IF purge[o].wantsStream
                                      THEN Append(@, ChunkEvent("stdout", DataToString(data)))
                                      ELSE @]]
  /\ UNCHANGED << activePurges, logStore >>
  /\ UNCHANGED << engineVars, callVars >>

\* child.stderr.on("data"): buffer the text and, when streaming, emit it.
StderrData(o, data) ==
  /\ NoTickPending
  /\ purge[o].state = "spawned"
  /\ purge[o].proc \in {"running", "exited"}
  /\ Len(purge[o].arrivals) < MaxChunks
  /\ purge' = [purge EXCEPT ![o] =
                 [@ EXCEPT !.stderr = Append(@, DataToString(data)),
                           !.arrivals = Append(@, [stream |-> "stderr", data |-> data]),
                           !.events = IF purge[o].wantsStream
                                      THEN Append(@, ChunkEvent("stderr", DataToString(data)))
                                      ELSE @]]
  /\ UNCHANGED << activePurges, logStore >>
  /\ UNCHANGED << engineVars, callVars >>

\* Variant: "close" is emitted as soon as the operation is cancelled.
ProcessHasEnded_OnCancel(p) ==
  \/ p.proc = "exited"
  \/ p.proc = "unlaunchable" /\ p.errorEmitted
  \/ p.cancelled

\* "close" is emitted once the process has ended (or could not be launched,
\* after the "error" event) and its pipes are closed.
ProcessHasEnded(p) ==
  \/ p.proc = "exited"
  \/ p.proc = "unlaunchable" /\ p.errorEmitted

\* child.on("close") up to await appendLogEntry(logEntry).
ChildClose(o) ==
  /\ NoTickPending
  /\ purge[o].state = "spawned"
  /\ ProcessHasEnded(purge[o])
  /\ activePurges' = Deregister(activePurges, o)
  /\ LET wasCancelled == purge[o].cancelled
         status == StatusOf(wasCancelled, ExitCodeOf(purge[o].exitCode),
                            purge[o].simulate)
     IN  purge' = [purge EXCEPT ![o] =
                     [@ EXCEPT !.state = "persisting",
                               !.child = FALSE,
                               !.wasCancelled = wasCancelled,
                               !.status = status,
                               !.logEntry = << LogEntry(o, purge[o], status,
                                                        wasCancelled) >>]]
  /\ UNCHANGED logStore
  /\ UNCHANGED << engineVars, callVars >>

\* appendLogEntry settles; the close handler emits the end event or the response.
AppendLogEntrySettles(o, stored) ==
  /\ NoTickPending
  /\ purge[o].state = "persisting"
  /\ logStore' = IF stored THEN AppendRecord(logStore, purge[o].logEntry[1])
                 ELSE logStore
  /\ LET persistedLog == IF stored THEN logStore'[Len(logStore')]
                         ELSE purge[o].logEntry[1]
     IN  purge' = [purge EXCEPT ![o] =
                     [@ EXCEPT !.state = "done",
                               !.persistedLog = << persistedLog >>,
                               !.events = Append(@, IF purge[o].wantsStream
                                                    THEN EndEvent(purge[o], persistedLog)
                                                    ELSE Response(purge[o], persistedLog))]]
  /\ UNCHANGED activePurges
  /\ UNCHANGED << engineVars, callVars >>

(***************************************************************************)
(* Specifications                                                          *)
(***************************************************************************)
\* useState({ isOpen: false, values: null }), useState(""): the component
\* as mounted, with no request sent yet.
NewDeleteSection ==
  [confirmationState |-> [isOpen |-> FALSE, values |-> << >>],
   confirmationInput |-> << >>,
   requests |-> << >>,          \* the payloads handed to purgeSenderStream
   previews |-> << >>,          \* the payloads handed to previewMutation.mutate
   handler |-> "none"]          \* the handler that ran last

\* No pure function is being called.
NoCall == [fn |-> "none", args |-> << >>]

Init ==
  /\ maxConcurrency \in 1..MaxConcurrency
  /\ EngineInit
  /\ PurgeInit
  /\ call = NoCall
  /\ callReturns = << >>
  /\ clock = 0
  /\ ui = NewDeleteSection

Next ==
  \/ \E m \in 0..MaxLimit, f \in FolderInputs : SearchMessages(m, f)
  \/ \E m \in 0..MaxLimit, f \in FolderInputs, sim \in {"omitted", "true", "false"} :
       DeleteMessages(m, f, sim)
  \/ \E d \in Directories : GetSearchableMailboxesReturns(d)
  \/ GetSearchableMailboxesThrows
  \/ \E i \in 1..MaxMailboxes : CreateServiceReturns(i)
  \/ \E i \in 1..MaxMailboxes : CreateServiceThrows(i)
  \/ \E i \in 1..MaxMailboxes, n \in 0..ConfigPageSize : FindItemsReturns(i, n)
  \/ \E i \in 1..MaxMailboxes : FindItemsThrows(i)
  \/ \E i \in 1..MaxMailboxes : DeleteItemsReturns(i)
  \/ \E i \in 1..MaxMailboxes : DeleteItemsThrows(i)
  \/ Aggregate

Spec == Init /\ [][Next]_vars

\* The event loop runs every ready continuation, and every remote call returns or throws.
FairSpec ==
  /\ Spec
  /\ WF_vars(\E d \in Directories : GetSearchableMailboxesReturns(d))
  /\ \A i \in 1..MaxMailboxes : WF_vars(RemoteCallSettles(i))
  /\ WF_vars(Aggregate)

\* Two purge operations side by side, with cancel requests for either; their
\* connections stay open and their processes write nothing.
PurgeNext ==
  \/ \E o \in OpIds, sim \in BOOLEAN, stream \in BOOLEAN, launchable \in BOOLEAN :
       StartPurge(o, sim, stream, launchable)
  \/ \E o \in OpIds, accepted \in BOOLEAN : CancelRequest(o, accepted)
  \/ \E o \in OpIds, code \in ExitCodes : ProcessExits(o, code)
  \/ \E o \in OpIds : ProcessKilled(o)
  \/ \E o \in OpIds : ChildError(o)
  \/ \E o \in OpIds : ChildClose(o)
  \/ \E o \in OpIds, stored \in BOOLEAN : AppendLogEntrySettles(o, stored)

\* No search or delete request is in progress while the purges are followed.
PurgeSpecInit ==
  /\ maxConcurrency = 1
  /\ phase = "idle"
  /\ op = "none"
  /\ simulate = TRUE
  /\ limit = 0
  /\ args = NoArgs
  /\ resolvedFolders = << >>
  /\ mailboxes = << >>
  /\ task = << >>
  /\ completionOrder = << >>
  /\ deleteCalls = << >>
  /\ response = NoResponse
  /\ PurgeInit
  /\ call = NoCall
  /\ callReturns = << >>
  /\ clock = 0
  /\ ui = NewDeleteSection

PurgeSpec == PurgeSpecInit /\ [][PurgeNext]_vars

\* One purge operation, whose process also writes to its pipes; cancel requests
\* name its id or an id that was never started.
StreamNext ==
  \/ \E sim \in BOOLEAN, stream \in BOOLEAN, launchable \in BOOLEAN :
       StartPurge("op-1", sim, stream, launchable)
  \/ \E o \in OpIds, accepted \in BOOLEAN : CancelRequest(o, accepted)
  \/ \E accepted \in BOOLEAN : ClientDisconnect("op-1", accepted)
  \/ \E code \in ExitCodes : ProcessExits("op-1", code)
  \/ ProcessKilled("op-1")
  \/ \E data \in ChunkData : StdoutData("op-1", data)
  \/ \E data \in ChunkData : StderrData("op-1", data)
  \/ ChildError("op-1")
  \/ ChildClose("op-1")
  \/ \E stored \in BOOLEAN : AppendLogEntrySettles("op-1", stored)

StreamSpec == PurgeSpecInit /\ [][StreamNext]_vars

\* One non-streaming purge operation whose process writes report lines on
\* stdout and exits.
MiningNext ==
  \/ \E sim \in BOOLEAN : StartPurge("op-1", sim, FALSE, TRUE)
  \/ \E data \in OutputChunks : StdoutData("op-1", data)
  \/ \E code \in ExitCodes : ProcessExits("op-1", code)
  \/ ChildClose("op-1")
  \/ AppendLogEntrySettles("op-1", TRUE)

MiningSpec == PurgeSpecInit /\ [][MiningNext]_vars

\* Two streaming purge operations side by side: op-1 with cancel requests,
\* connection closes, launch errors, exits and stdout chunks, op-2 launched
\* next to it, writing a chunk and exiting.
IsolationNext ==
  \/ \E launchable \in BOOLEAN : StartPurge("op-1", FALSE, TRUE, launchable)
  \/ StartPurge("op-2", FALSE, TRUE, TRUE)
  \/ \E o \in OpIds : CancelRequest(o, TRUE)
  \/ ClientDisconnect("op-1", TRUE)
  \/ \E o \in OpIds, code \in ExitCodes : ProcessExits(o, code)
  \/ ProcessKilled("op-1")
  \/ \E o \in OpIds : StdoutData(o, << 120, 195, 169 >>)
  \/ ChildError("op-1")
  \/ \E o \in OpIds : ChildClose(o)
  \/ \E o \in OpIds : AppendLogEntrySettles(o, TRUE)

IsolationSpec == PurgeSpecInit /\ [][IsolationNext]_vars

(***************************************************************************)
(* The query compiler (utils/queryBuilder.js).  A text is a sequence of    *)
(* UTF-16 code units; an absent or empty field is the empty text.          *)
(***************************************************************************)
MaxKeywords == 2
MaxCalls == 2

Quote == 34
Backslash == 92
LetterT == 84

\* 'kind:email'
DEFAULT_QUERY == << 107, 105, 110, 100, 58, 101, 109, 97, 105, 108 >>

\* The literal parts of the clauses: from:" subject:" body:" received>=
\* received<= hasattachment: importance: and the separator ' AND '.
ClauseText ==
  [from |-> << 102, 114, 111, 109, 58, 34 >>,
   subject |-> << 115, 117, 98, 106, 101, 99, 116, 58, 34 >>,
   body |-> << 98, 111, 100, 121, 58, 34 >>,
   receivedAfter |-> << 114, 101, 99, 101, 105, 118, 101, 100, 62, 61 >>,
   receivedBefore |-> << 114, 101, 99, 101, 105, 118, 101, 100, 60, 61 >>,
   hasAttachment |-> << 104, 97, 115, 97, 116, 116, 97, 99, 104, 109, 101, 110, 116, 58 >>,
   importance |-> << 105, 109, 112, 111, 114, 116, 97, 110, 99, 101, 58 >>,
   separator |-> << 32, 65, 78, 68, 32 >>]

\* Variant: backslashes are escaped as well as quotes.
RECURSIVE escapeValue_Backslashes(_)
escapeValue_Backslashes(value) ==
  IF value = << >> THEN << >>
  ELSE (IF Head(value) \in {Quote, Backslash} THEN << Backslash, Head(value) >>
        ELSE << Head(value) >>)
       \o escapeValue_Backslashes(Tail(value))

\* value.replace(/"/g, '\\"'): a backslash is put before every quote.
RECURSIVE escapeValue(_)
escapeValue(value) ==
  IF value = << >> THEN << >>
  ELSE (IF Head(value) = Quote THEN << Backslash, Quote >> ELSE << Head(value) >>)
       \o escapeValue(Tail(value))

\* A Date value: invalid, or a UTC calendar date and hour.
NoDate == [given |-> FALSE, valid |-> FALSE, year |-> 0, month |-> 0, day |-> 0, hour |-> 0]
InvalidDate == [given |-> TRUE, valid |-> FALSE, year |-> 0, month |-> 0, day |-> 0, hour |-> 0]
DateOf(y, m, d, h) == [given |-> TRUE, valid |-> TRUE, year |-> y, month |-> m, day |-> d, hour |-> h]

\* Date.prototype.toISOString: YYYY-MM-DDTHH:00:00.000Z
toISOString(date) ==
  LET DigitUnit(d) == 48 + d
      Pad2(n) == << DigitUnit(n \div 10), DigitUnit(n % 10) >>
      Pad4(n) == << DigitUnit(n \div 1000), DigitUnit((n \div 100) % 10) >> \o Pad2(n % 100)
  IN  Pad4(date.year) \o << 45 >> \o Pad2(date.month) \o << 45 >> \o Pad2(date.day)
        \o << LetterT >> \o Pad2(date.hour)
        \o << 58, 48, 48, 58, 48, 48, 46, 48, 48, 48, 90 >>

\* toDatePart: null (the empty text) for an absent or invalid date, else
\* split('T')[0], the text before the first T.
toDatePart(value) ==
  IF ~value.given THEN << >>
  ELSE IF ~value.valid THEN << >>
  ELSE LET text == toISOString(value)
           ts == {k \in 1..Len(text) : text[k] = LetterT}
       IN  IF ts = {} THEN text ELSE SubSeq(text, 1, LeastOf(ts) - 1)

\* String.prototype.toLowerCase on the letters A-Z.
LowerCase(text) == [k \in 1..Len(text) |-> IF text[k] \in 65..90 THEN text[k] + 32 ELSE text[k]]

\* `${hasAttachments}` for a boolean.
BooleanText(b) == IF b THEN << 116, 114, 117, 101 >> ELSE << 102, 97, 108, 115, 101 >>

\* Variant: the clauses are joined last to first.
RECURSIVE JoinAnd_Reversed(_)
JoinAnd_Reversed(clauses) ==
  IF Len(clauses) = 1 THEN Head(clauses)
  ELSE JoinAnd_Reversed(Tail(clauses)) \o ClauseText.separator \o Head(clauses)

\* join(' AND ') of a non-empty list.
RECURSIVE JoinAnd(_)
JoinAnd(clauses) ==
  IF Len(clauses) = 1 THEN Head(clauses)
  ELSE Head(clauses) \o ClauseText.separator \o JoinAnd(Tail(clauses))

\* keywords.filter(Boolean).map(word => `"${escapeValue(word)}"`)
RECURSIVE KeywordTerms(_)
KeywordTerms(keywords) ==
  IF keywords = << >> THEN << >>
  ELSE (IF Head(keywords) = << >> THEN << >>
        ELSE << << Quote >> \o escapeValue(Head(keywords)) \o << Quote >> >>)
       \o KeywordTerms(Tail(keywords))

\* The clauses array after the pushes, in statement order.
Clauses(filter) ==
  (IF filter.sender # << >>
     THEN << ClauseText.from \o escapeValue(filter.sender) \o << Quote >> >> ELSE << >>)
  \o (IF filter.subject # << >>
        THEN << ClauseText.subject \o escapeValue(filter.subject) \o << Quote >> >> ELSE << >>)
  \o (IF filter.body # << >>
        THEN << ClauseText.body \o escapeValue(filter.body) \o << Quote >> >> ELSE << >>)
  \o (IF KeywordTerms(filter.keywords) # << >>
        THEN << JoinAnd(KeywordTerms(filter.keywords)) >> ELSE << >>)
  \o (IF toDatePart(filter.receivedFrom) # << >>
        THEN << ClauseText.receivedAfter \o toDatePart(filter.receivedFrom) >> ELSE << >>)
  \o (IF toDatePart(filter.receivedTo) # << >>
        THEN << ClauseText.receivedBefore \o toDatePart(filter.receivedTo) >> ELSE << >>)
  \o (IF filter.hasAttachments # << >>
        THEN << ClauseText.hasAttachment \o BooleanText(filter.hasAttachments[1]) >> ELSE << >>)
  \o (IF filter.importance # << >>
        THEN << ClauseText.importance \o LowerCase(filter.importance) >> ELSE << >>)

buildAqsQuery(filter) ==
  IF Clauses(filter) # << >> THEN JoinAnd(Clauses(filter)) ELSE DEFAULT_QUERY

\* The filters the compiler is called with: values with quotes and
\* backslashes, empty keywords, invalid dates, absent fields.
Filters ==
  LET TextValues == { << 97 >>, << Quote >>, << Backslash, Quote >>, << 97, Backslash >> }
      KeywordValues == { << >>, << 107 >>, << Quote >> }
  IN  [sender : { << >>, << 97, 64, 120 >> },
       subject : { << >> } \cup TextValues,
       body : { << >>, << 98 >> },
       keywords : UNION { [1..n -> KeywordValues] : n \in 0..MaxKeywords },
       receivedFrom : { NoDate, InvalidDate, DateOf(2024, 1, 1, 0) },
       receivedTo : { NoDate, DateOf(2024, 12, 31, 23) },
       hasAttachments : { << >>, << TRUE >>, << FALSE >> },
       importance : { << >>, << 72, 105, 103, 104 >> }]

QueryInit ==
  /\ maxConcurrency = 1
  /\ EngineInit
  /\ PurgeInit
  /\ call \in {[fn |-> "buildAqsQuery", args |-> f] : f \in Filters}
  /\ callReturns = << >>
  /\ clock = 0
  /\ ui = NewDeleteSection

\* One call of buildAqsQuery with the filter.
BuildAqsQueryCall ==
  /\ call.fn = "buildAqsQuery"
  /\ Len(callReturns) < MaxCalls
  /\ callReturns' = Append(callReturns, buildAqsQuery(call.args))
  /\ UNCHANGED << engineVars, purgeVars, call, clock, ui >>

QuerySpec == QueryInit /\ [][BuildAqsQueryCall]_vars

(***************************************************************************)
(* The argument vector of the purge script (POST /purge-sender).  Strings  *)
(* are TLA+ strings; an omitted string field and an empty one are both "". *)
(***************************************************************************)
MaxClock == 2

ScriptPath == "PS.ps1"

\* purgeSchema: the custom rule rejects a body with both subject filters.
PurgeSchemaRejects(body) == body.subjectContains # "" /\ body.subjectEqual # ""

\* purgeSchema: the validated body, with the defaults filled in.
ValidatedPurgeBody(body) ==
  [senderEmail |-> body.senderEmail,
   subjectContains |-> body.subjectContains,
   subjectEqual |-> body.subjectEqual,
   receivedFrom |-> body.receivedFrom,
   receivedTo |-> body.receivedTo,
   simulate |-> (body.simulate # "false"),
   allowHardDelete |-> (body.allowHardDelete = "true"),
   method |-> IF body.method = "" THEN "ComplianceSearch" ELSE body.method,
   daysBack |-> IF body.daysBack = 0 THEN 30 ELSE body.daysBack]

\* formatDateForScript: day/month/year, each of day and month through
\* String(n).padStart(2, "0"); "" stands for null.
formatDateForScript(value) ==
  LET PadStart2(n) == IF n < 10 THEN "0" \o ToString(n) ELSE ToString(n)
  IN  IF ~value.given THEN ""
      ELSE IF ~value.valid THEN ""
      ELSE PadStart2(value.day) \o "/" \o PadStart2(value.month) \o "/"
             \o ToString(value.year)

\* Variant: the two flags are exchanged.
ModeFlag_Swapped(simulateFlag) == IF simulateFlag THEN "-AutoConfirm" ELSE "-WhatIf"

\* if (simulate) push("-WhatIf") else push("-AutoConfirm")
ModeFlag(simulateFlag) == IF simulateFlag THEN "-WhatIf" ELSE "-AutoConfirm"

\* scriptArgs after all the pushes.
ScriptArgs(v, now) ==
  << "-NoProfile", "-ExecutionPolicy", "Bypass", "-File", ScriptPath,
     "-SenderEmail", v.senderEmail, "-Method", v.method, "-DaysBack", ToString(v.daysBack) >>
  \o (IF v.subjectEqual # "" THEN << "-SubjectEqual", v.subjectEqual >>
      ELSE IF v.subjectContains # "" THEN << "-SubjectContains", v.subjectContains >>
      ELSE << >>)
  \o (IF formatDateForScript(v.receivedFrom) # ""
        THEN << "-FromDate", formatDateForScript(v.receivedFrom) >> ELSE << >>)
  \o (IF formatDateForScript(v.receivedTo) # ""
        THEN << "-ToDate", formatDateForScript(v.receivedTo) >> ELSE << >>)
  \o << "-LogFile", LogPath(now) >>
  \o << ModeFlag(v.simulate) >>
  \o (IF v.allowHardDelete THEN << "-AllowHardDelete" >> ELSE << >>)

\* The request bodies: each optional field omitted or given, subject values
\* that are plain text or spelled like a flag.
PurgeBodies ==
  [senderEmail : { "a@x.com" },
   subjectContains : { "", "Invoice", "-AutoConfirm" },
   subjectEqual : { "", "Offer", "-WhatIf" },
   receivedFrom : { NoDate, DateOf(2024, 1, 5, 0) },
   receivedTo : { NoDate, DateOf(2024, 12, 31, 23) },
   simulate : { "omitted", "true", "false" },
   allowHardDelete : { "omitted", "true", "false" },
   method : { "", "SearchMailbox" },
   daysBack : { 0, 7 }]

ArgsInit ==
  /\ maxConcurrency = 1
  /\ EngineInit
  /\ PurgeInit
  /\ call \in {[fn |-> "purge-sender", args |-> b] : b \in PurgeBodies}
  /\ callReturns = << >>
  /\ clock = 0
  /\ ui = NewDeleteSection

\* validateBody(purgeSchema) and the handler up to spawn: the request is
\* refused, or powershell.exe is spawned with scriptArgs.
PurgeSenderCall(now) ==
  /\ call.fn = "purge-sender"
  /\ callReturns = << >>
  /\ callReturns' =
       IF PurgeSchemaRejects(call.args)
       THEN << [kind |-> "error", status |-> 400, scriptArgs |-> << >>] >>
       ELSE << [kind |-> "spawn", status |-> 0,
                scriptArgs |-> ScriptArgs(ValidatedPurgeBody(call.args), now)] >>
  /\ UNCHANGED << engineVars, purgeVars, call, clock, ui >>

ArgsNext == \E now \in 1..MaxClock : PurgeSenderCall(now)

ArgsSpec == ArgsInit /\ [][ArgsNext]_vars

(***************************************************************************)
(* The delete mode of POST /delete: validateBody(deleteSchema), then the   *)
(* destructuring and the mode lookup of deleteMessages.                    *)
(***************************************************************************)
\* Object keys of DELETE_MODE_MAP and the EWS DeleteMode each stands for.
DELETE_MODE_MAP ==
  [softdelete |-> "SoftDelete", movetodeleteditems |-> "MoveToDeletedItems",
   harddelete |-> "HardDelete"]

\* The keys deleteSchema knows; stripUnknown drops every other key of the body.
DeleteSchemaKeys == {"sender", "subject", "receivedFrom", "receivedTo", "maxPerMailbox", "simulate"}

\* deleteSchema: sender is required.
DeleteSchemaRejects(body) == "sender" \notin DOMAIN body

\* Variant: deleteMode is a key of the schema too.
ValidatedDeleteBody_WithMode(body) ==
  [key \in (DOMAIN body \cap (DeleteSchemaKeys \cup {"deleteMode"})) \cup {"simulate"} |->
     IF key \in DOMAIN body THEN body[key] ELSE TRUE]

\* schema.validateAsync(body, { stripUnknown: true }): the known keys of the
\* body, simulate defaulting to true.
ValidatedDeleteBody(body) ==
  [key \in (DOMAIN body \cap DeleteSchemaKeys) \cup {"simulate"} |->
     IF key \in DOMAIN body THEN body[key] ELSE TRUE]

\* deleteMode.toLowerCase() on the spellings the model uses.
ModeKey(deleteMode) ==
  CASE deleteMode = "softDelete" -> "softdelete"
    [] deleteMode = "moveToDeletedItems" -> "movetodeleteditems"
    [] deleteMode = "hardDelete" -> "harddelete"
    [] deleteMode = "HardDelete" -> "harddelete"
    [] OTHER -> deleteMode

\* deleteMessages: deleteMode = "softDelete" when the filters have none; the
\* mode given to deleteForMailbox and the key reported as summary.mode.
DeleteModeOf(filters) ==
  LET deleteMode == IF "deleteMode" \in DOMAIN filters THEN filters.deleteMode
                    ELSE "softDelete"
      modeKey == ModeKey(deleteMode)
      known == modeKey \in DOMAIN DELETE_MODE_MAP
  IN  [mode |-> IF known THEN DELETE_MODE_MAP[modeKey] ELSE "SoftDelete",
       effectiveModeKey |-> IF known THEN modeKey ELSE "softdelete"]

\* The bodies sent to POST /delete: with and without sender, subject,
\* deleteMode, simulate and maxPerMailbox.
DeleteBodies ==
  LET Optional(key, values) == { << >> } \cup { key :> v : v \in values }
  IN  { a @@ b @@ c @@ d @@ e :
          a \in Optional("sender", {"a@x.com"}),
          b \in Optional("subject", {"Invoice"}),
          c \in Optional("deleteMode", {"softDelete", "moveToDeletedItems", "hardDelete",
                                        "HardDelete", "purge"}),
          d \in Optional("simulate", BOOLEAN),
          e \in Optional("maxPerMailbox", 1..MaxLimit) }

DeleteModeInit ==
  /\ maxConcurrency = 1
  /\ EngineInit
  /\ PurgeInit
  /\ call \in {[fn |-> f, args |-> b] : f \in {"POST /delete", "deleteMessages"},
                                         b \in DeleteBodies}
  /\ callReturns = << >>
  /\ clock = 0
  /\ ui = NewDeleteSection

\* POST /delete: the body is validated and the payload handed to deleteMessages.
PostDeleteCall ==
  /\ call.fn = "POST /delete"
  /\ callReturns = << >>
  /\ callReturns' =
       IF DeleteSchemaRejects(call.args)
       THEN << [kind |-> "error", status |-> 400, mode |-> "none", summaryMode |-> "none"] >>
       ELSE LET resolved == DeleteModeOf(ValidatedDeleteBody(call.args))
            IN  << [kind |-> "ok", status |-> 200, mode |-> resolved.mode,
                    summaryMode |-> resolved.effectiveModeKey] >>
  /\ UNCHANGED << engineVars, purgeVars, call, clock, ui >>

\* deleteMessages called with the filters as they are.
DeleteMessagesCall ==
  /\ call.fn = "deleteMessages"
  /\ callReturns = << >>
  /\ LET resolved == DeleteModeOf(call.args)
     IN  callReturns' = << [kind |-> "ok", status |-> 200, mode |-> resolved.mode,
                            summaryMode |-> resolved.effectiveModeKey] >>
  /\ UNCHANGED << engineVars, purgeVars, call, clock, ui >>

DeleteModeNext == PostDeleteCall \/ DeleteMessagesCall

DeleteModeSpec == DeleteModeInit /\ [][DeleteModeNext]_vars

(***************************************************************************)
(* Properties                                                              *)
(***************************************************************************)
\* Helpers over the returned aggregate.
ResultIndexOf(address) ==
  { k \in 1..Len(response.results) : response.results[k].mailbox = address }
FailureIndexOf(address) ==
  { k \in 1..Len(response.failures) : response.failures[k].mailbox = address }
Fanned == phase = "returned" /\ Len(mailboxes) > 0
TotalField == IF op = "search" THEN response.summary.totalMessages
              ELSE response.summary.totalMatches

RECURSIVE HeldInFolders(_, _)
HeldInFolders(address, folders) ==
  IF folders = << >> THEN 0
  ELSE Store[address][folders[1].id] + HeldInFolders(address, Tail(folders))

\* C1: in every reachable state of a search or delete request at most
\* maxConcurrency per-mailbox jobs are in flight (started and not settled).
C1_AtMostKInFlight == Cardinality(InFlight(task)) <= maxConcurrency

C1_Witness ==
  /\ Cardinality(InFlight(task)) = maxConcurrency
  /\ Queued(task) # {}
  /\ Settled(task) # {}

\* C2: every per-mailbox job of a request eventually settles, given that
\* every remote call returns or throws and every ready continuation runs, so
\* the request eventually returns its aggregate.
C2_EveryTaskSettles == (phase = "running") ~> (phase = "returned")

\* The safety half of C2: one job per directory entry, and the aggregate is
\* returned only when every job has settled.
AggregateAfterAllSettled ==
  /\ phase \in {"running", "returned"} => Len(task) = Len(mailboxes)
  /\ phase = "returned" => \A i \in DOMAIN task : task[i].pc = "settled"

\* C3: a failure inside one mailbox's job becomes that mailbox's failure
\* entry; it never rejects the request, never touches a sibling job, and the
\* aggregate still carries every other mailbox's outcome.
C3_NoRejection ==
  /\ \A i \in DOMAIN task : task[i].pc # "rejected"
  /\ phase = "rejected" => task = << >>
  /\ Fanned =>
       \A i \in DOMAIN task :
         /\ task[i].settledBy = "catch" => FailureIndexOf(mailboxes[i]) # {}
         /\ (task[i].settledBy = "return" /\ task[i].result.kind = "object") =>
              \E k \in ResultIndexOf(mailboxes[i]) : response.results[k] = task[i].result

C3_SiblingsUntouched ==
  \A i \in DOMAIN task :
    (task[i].settledBy = "none" /\ task'[i].settledBy = "catch") =>
      \A j \in DOMAIN task \ {i} :
        \/ task'[j] = task[j]
        \/ /\ task[j].pc = "queued"
           /\ task'[j] = [task[j] EXCEPT !.pc = "createService"]

C3_FailureIsolated == []C3_NoRejection /\ [][C3_SiblingsUntouched]_vars

C3_Witness ==
  /\ Fanned
  /\ Len(response.failures) > 0
  /\ Len(response.results) > 0

\* C4: in the returned aggregate every resolved mailbox is in exactly one of
\* results (its job returned at least one match), failures (its job threw) or
\* neither (it returned no match); never in both, and never twice.
C4_Partition ==
  Fanned =>
    \A i \in DOMAIN task :
      LET inResults == Cardinality(ResultIndexOf(mailboxes[i]))
          inFailures == Cardinality(FailureIndexOf(mailboxes[i]))
          threw == task[i].settledBy = "catch"
          matched == task[i].settledBy = "return" /\ task[i].result.kind = "object"
      IN  /\ inResults + inFailures <= 1
          /\ threw <=> inFailures = 1
          /\ matched <=> inResults = 1
          /\ matched => task[i].result.totalMatches >= 1
          /\ (~threw /\ ~matched) => task[i].result = NullResult

C4_Witness ==
  /\ Fanned
  /\ \E i, j, k \in DOMAIN task :
       /\ ResultIndexOf(mailboxes[i]) # {}
       /\ FailureIndexOf(mailboxes[j]) # {}
       /\ ResultIndexOf(mailboxes[k]) = {} /\ FailureIndexOf(mailboxes[k]) = {}

\* C5: summary.totalMailboxesScanned is the number of resolved mailboxes,
\* summary.mailboxesWithMatches is the length of results, and the total of
\* matches is the sum of totalMatches over results.
C5_SummaryCounts ==
  phase = "returned" =>
    /\ response.summary.totalMailboxesScanned = Len(mailboxes)
    /\ response.summary.mailboxesWithMatches = Len(response.results)
    /\ TotalField = SumTotalMatches(response.results)

C5_Witness ==
  /\ Fanned
  /\ Len(response.failures) > 0
  /\ Len(response.results) > 0
  /\ Len(response.results) + Len(response.failures) < Len(mailboxes)

\* C6: results is in ascending order of mailbox address (the order of the
\* comparator, localeCompare) and holds exactly the outcomes of the jobs, so
\* it is the same sequence whatever order the jobs completed in.
C6_SortedAndDeterministic ==
  phase = "returned" =>
    /\ \A p, q \in 1..Len(response.results) :
         p < q => LocaleCompare(response.results[p].mailbox, response.results[q].mailbox) < 0
    /\ { response.results[k] : k \in 1..Len(response.results) }
         = { task[i].result : i \in { j \in DOMAIN task : IsMailboxResult(task[j].result) } }

\* Position of job i in the completion order.
CompletionRank(i) == CHOOSE r \in 1..Len(completionOrder) : completionOrder[r] = i

C6_Witness ==
  /\ Fanned
  /\ Len(response.results) >= 2
  /\ \E i, j \in DOMAIN task :
       /\ response.results[1].mailbox = mailboxes[i]
       /\ response.results[2].mailbox = mailboxes[j]
       /\ j < i
       /\ CompletionRank(j) < CompletionRank(i)

\* C7: a delete request whose simulate argument is true or omitted never
\* issues a DeleteItems call, and every outcome and the summary report zero
\* deleted.
C7_SimulateDeletesNothing ==
  (op = "delete" /\ args.simulate # "false") =>
    /\ \A i \in DOMAIN task : task[i].pc # "DeleteItems"
    /\ \A i \in DOMAIN deleteCalls : deleteCalls[i] = << >>
    /\ phase = "returned" =>
         /\ \A k \in 1..Len(response.results) : response.results[k].deleted = 0
         /\ response.summary.totalDeleted = 0

C7_Witness ==
  /\ Fanned
  /\ op = "delete"
  /\ args.simulate = "omitted"
  /\ Len(response.results) > 0

\* C8: a live delete request reports as totalDeleted the sum of the deleted
\* counts of the outcomes in results; each outcome's deleted count is the
\* number of identifiers collected and submitted in that mailbox's one
\* DeleteItems call; mailboxes in failures add nothing.
C8_TotalDeleted ==
  (Fanned /\ op = "delete" /\ args.simulate = "false") =>
    /\ response.summary.totalDeleted = SumDeleted(response.results)
    /\ \A i \in DOMAIN task :
         \A k \in ResultIndexOf(mailboxes[i]) :
           /\ Len(deleteCalls[i]) = 1
           /\ response.results[k].deleted = Len(deleteCalls[i][1])
           /\ response.results[k].deleted = response.results[k].totalMatches
           /\ deleteCalls[i][1] = [m \in 1..Len(response.results[k].matches) |->
                                     response.results[k].matches[m].id]

C8_Witness ==
  /\ Fanned
  /\ op = "delete"
  /\ args.simulate = "false"
  /\ response.summary.totalDeleted > 0
  /\ \E i \in DOMAIN task :
       /\ FailureIndexOf(mailboxes[i]) # {}
       /\ deleteCalls[i] # << >>

\* C9: with caller limit L no outcome has more than L matches over all its
\* folders, and a mailbox that holds more than L matching items in the
\* scanned folders yields exactly L; with directory <<a, b, B>>, L = 2, a
\* holding more than 2 items, b none and B failing at session creation, the
\* aggregate is results = [a with 2], failures = [B], scanned = 3,
\* withMatches = 1.
C9_NeverMoreThanL ==
  (Fanned /\ args.maxPerMailbox >= 1) =>
    \A k \in 1..Len(response.results) :
      /\ response.results[k].totalMatches <= args.maxPerMailbox
      /\ Len(response.results[k].matches) = response.results[k].totalMatches

C9_Scenario ==
  (/\ Fanned
   /\ mailboxes = << <<97>>, <<98>>, <<66>> >>
   /\ args.maxPerMailbox = 2
   /\ args.folders = << >>
   /\ task[1].settledBy = "return"
   /\ task[2].settledBy = "return"
   /\ task[3].result.error = "Failed to initialise Exchange Web Services client") =>
    /\ Len(response.results) = 1
    /\ response.results[1].mailbox = <<97>>
    /\ response.results[1].totalMatches = 2
    /\ Len(response.failures) = 1
    /\ response.failures[1].mailbox = <<66>>
    /\ response.summary.totalMailboxesScanned = 3
    /\ response.summary.mailboxesWithMatches = 1

C10_StatusIsOneOfFour ==
  /\ \A o \in OpIds :
       /\ purge[o].status \in {"none", "simulated", "completed", "failed", "cancelled"}
       /\ purge[o].state \in {"persisting", "done"} <=> purge[o].status # "none"
  /\ \A k \in 1..Len(logStore) :
       /\ logStore[k].status \in {"simulated", "completed", "failed", "cancelled"}
       /\ logStore[k].status = purge[logStore[k].requestId].status

C10_StatusDecidedAtExit ==
  \A o \in OpIds :
    (purge[o].state = "spawned" /\ purge'[o].state = "persisting") =>
      purge'[o].status =
        IF purge[o].cancelled THEN "cancelled"
        ELSE IF purge[o].exitCode = 0
             THEN (IF purge[o].simulate THEN "simulated" ELSE "completed")
             ELSE "failed"

C10_ExitStatus == []C10_StatusIsOneOfFour /\ [][C10_StatusDecidedAtExit]_vars

C10_Witness ==
  \E o1, o2 \in OpIds :
    /\ purge[o1].state = "done"
    /\ purge[o1].status = "cancelled"
    /\ purge[o1].exitCode = 0
    /\ purge[o2].state = "done"
    /\ purge[o2].status = "failed"
    /\ purge[o2].signalCode = "SIGTERM"
    /\ ~purge[o2].cancelled

\* A step that handles a cancel request for operation id o.
CancelStep(o) == \E accepted \in BOOLEAN : CancelRequest(o, accepted)

\* What a step leaves alone in the context of o: flags, reason, signals,
\* lifecycle, events.
ContextUntouched(o) ==
  /\ purge'[o].cancelled = purge[o].cancelled
  /\ purge'[o].cancelReason = purge[o].cancelReason
  /\ purge'[o].signalled = purge[o].signalled
  /\ purge'[o].state = purge[o].state
  /\ purge'[o].events = purge[o].events

\* C11: a cancel request for an id that is not registered (never started, or
\* already deregistered) is answered not-found, calls kill() on nothing, sets
\* no flag or reason of any operation, and leaves the registry and the log
\* store as they were.
C11_StepUnknownId ==
  \A o \in OpIds :
    (CancelStep(o) /\ o \notin activePurges) =>
      /\ purge'[o].cancelAnswer = "not-found"
      /\ purge'[o].killCalls = 0
      /\ \A q \in OpIds : ContextUntouched(q)
      /\ activePurges' = activePurges
      /\ logStore' = logStore

C11_UnknownIdNotFound == [][C11_StepUnknownId]_vars

\* A finished, deregistered operation and a never started one were both
\* answered not-found.
C11_Witness ==
  \E o, q \in OpIds :
    /\ purge[o].state = "done" /\ o \notin activePurges
    /\ purge[o].cancelAnswer = "not-found"
    /\ purge[q].state = "idle"
    /\ purge[q].cancelAnswer = "not-found"

\* C12: a cancel request for an operation that is still registered while its
\* process has exited, by exit code or by signal, is answered
\* already-finished, removes the registry entry, sets neither the flag nor
\* the reason and sends no signal.
C12_StepAfterExit ==
  \A o \in OpIds :
    (CancelStep(o) /\ o \in activePurges /\ purge[o].proc = "exited") =>
      /\ purge'[o].cancelAnswer = "already-finished"
      /\ purge'[o].killCalls = 0
      /\ o \notin activePurges'
      /\ ContextUntouched(o)

C12_AlreadyFinished == [][C12_StepAfterExit]_vars

\* C13: a cancel request for a registered operation whose process is running
\* sets the cancelled flag, calls kill() exactly once, answers cancelling when
\* the signal was accepted and pending when it was not, and leaves the
\* registry entry in place.
C13_StepLive ==
  \A o \in OpIds, accepted \in BOOLEAN :
    (CancelRequest(o, accepted) /\ o \in activePurges /\ purge[o].proc = "running") =>
      /\ purge'[o].cancelled
      /\ purge'[o].killCalls = 1
      /\ purge'[o].cancelAnswer = IF accepted THEN "cancelling" ELSE "pending"
      /\ purge'[o].signalled = (purge[o].signalled \/ accepted)
      /\ o \in activePurges'
      /\ purge'[o].state = purge[o].state

C13_CancelLive == [][C13_StepLive]_vars

\* A running, registered operation was answered pending: flag set, no signal
\* delivered, still registered.
C13_Witness ==
  \E o \in OpIds :
    /\ purge[o].proc = "running"
    /\ o \in activePurges
    /\ purge[o].cancelAnswer = "pending"
    /\ purge[o].cancelled
    /\ ~purge[o].signalled

\* C14: the cancellation reason is written once: a reason that is stored is
\* never replaced, whatever cancel requests and connection closes follow; the
\* first cancellation stores its own reason; the cancelled flag never goes
\* back to false.
C14_StepFirstWriterWins ==
  \A o \in OpIds :
    /\ purge[o].cancelled => purge'[o].cancelled
    /\ purge[o].cancelReason # "null" => purge'[o].cancelReason = purge[o].cancelReason
    /\ (~purge[o].cancelled /\ purge'[o].cancelled) =>
         purge'[o].cancelReason = IF CancelStep(o) THEN "user_requested"
                                  ELSE "connection_closed"

C14_ReasonWithFlag ==
  \A o \in OpIds :
    /\ purge[o].cancelled <=> purge[o].cancelReason # "null"
    /\ purge[o].cancelReason \in {"null", "user_requested", "connection_closed"}

C14_FirstWriterWins == []C14_ReasonWithFlag /\ [][C14_StepFirstWriterWins]_vars

\* A streaming operation was cancelled by request, then its connection
\* closed while the process had no exit code: the reason is still the first.
C14_Witness ==
  \E o \in OpIds :
    /\ purge[o].wantsStream
    /\ ~purge[o].connected
    /\ purge[o].killCalls = 1
    /\ purge[o].cancelAnswer = "cancelling"
    /\ purge[o].state = "spawned"
    /\ purge[o].cancelReason = "user_requested"

\* The terminal signals to the caller: end or error event, the synchronous
\* response, the error handed to next().
TerminalEvents == {"end", "error", "response", "next(error)"}

TerminalCount(events) ==
  Cardinality({k \in 1..Len(events) : events[k].event \in TerminalEvents})

EntriesOf(o) == {k \in 1..Len(logStore) : logStore[k].requestId = o}

\* A step that handles the close of the connection of operation o.
DisconnectStep(o) == \E accepted \in BOOLEAN : ClientDisconnect(o, accepted)

\* C15: while an operation is cancelled and its process has not exited, it is
\* still registered, has no status, no audit entry and no terminal event or
\* response; no cancel request and no connection close decides a status,
\* persists an entry or produces a terminal signal: these happen only in
\* steps of an operation whose process is no longer running.
C15_NotFinalBeforeExit ==
  \A o \in OpIds :
    (purge[o].cancelled /\ purge[o].proc = "running") =>
      /\ o \in activePurges
      /\ purge[o].state = "spawned"
      /\ purge[o].status = "none"
      /\ purge[o].logEntry = << >>
      /\ EntriesOf(o) = {}
      /\ TerminalCount(purge[o].events) = 0

C15_StepFinalizesOnlyAtExit ==
  \A o \in OpIds :
    /\ (CancelStep(o) \/ DisconnectStep(o)) =>
         /\ purge'[o].status = purge[o].status
         /\ purge'[o].state = purge[o].state
         /\ purge'[o].logEntry = purge[o].logEntry
         /\ purge'[o].events = purge[o].events
         /\ logStore' = logStore
    /\ (\/ purge'[o].status # purge[o].status
        \/ purge'[o].logEntry # purge[o].logEntry
        \/ TerminalCount(purge'[o].events) # TerminalCount(purge[o].events)
        \/ \E k \in 1..Len(logStore') : k > Len(logStore) /\ logStore'[k].requestId = o) =>
         /\ purge[o].proc # "running"
         /\ purge[o].state # "idle"

C15_TwoPhase == []C15_NotFinalBeforeExit /\ [][C15_StepFinalizesOnlyAtExit]_vars

\* A cancel request was accepted and the process has not exited yet.
C15_Witness ==
  \E o \in OpIds :
    /\ purge[o].cancelAnswer = "cancelling"
    /\ purge[o].signalled
    /\ purge[o].proc = "running"
    /\ o \in activePurges

\* C16: when the connection of a streaming purge closes while its process is
\* running, kill() is called, the flag is set and the reason becomes
\* connection_closed unless one was stored; the audit entry assembled and
\* persisted at the exit of such an operation has cancelled = true and status
\* cancelled.
C16_StepDisconnect ==
  \A o \in OpIds :
    (DisconnectStep(o) /\ purge[o].wantsStream /\ purge[o].proc = "running") =>
      /\ purge'[o].killCalls = 1
      /\ purge'[o].cancelled
      /\ purge'[o].cancelReason = IF purge[o].cancelReason = "null"
                                  THEN "connection_closed"
                                  ELSE purge[o].cancelReason

C16_EntryIsCancelled ==
  \A o \in OpIds :
    purge[o].closedWhileRunning =>
      /\ purge[o].logEntry # << >> =>
           /\ purge[o].logEntry[1].cancelled
           /\ purge[o].logEntry[1].status = "cancelled"
           /\ purge[o].logEntry[1].cancelReason \in {"connection_closed", "user_requested"}
      /\ \A k \in EntriesOf(o) :
           /\ logStore[k].cancelled
           /\ logStore[k].status = "cancelled"
           /\ logStore[k].cancelReason = purge[o].logEntry[1].cancelReason

C16_DisconnectCancels == []C16_EntryIsCancelled /\ [][C16_StepDisconnect]_vars

\* The connection closed mid-stream with no earlier cancel, the process then
\* exited with code 0, and the entry is persisted.
C16_Witness ==
  \E o \in OpIds :
    /\ purge[o].closedWhileRunning
    /\ purge[o].cancelReason = "connection_closed"
    /\ purge[o].exitCode = 0
    /\ purge[o].state = "done"
    /\ EntriesOf(o) # {}

\* The operation has produced its end event or response.
Finished(o) == purge[o].state = "done"

\* appendLogEntry returned the stored record (it carries an id).
AppendSucceeded(o) ==
  /\ purge[o].persistedLog # << >>
  /\ "id" \in DOMAIN purge[o].persistedLog[1]

InFlightPurge(o) == purge[o].state = "spawned" /\ ~purge[o].errorEmitted

\* C18: the registry holds an id only while its operation is in flight; the
\* error handler, the close handler and a cancel that finds an exit code
\* each remove the entry of their own operation and no other; once an
\* operation is past its close handler its id is not registered and a cancel
\* request for it is answered not-found.
C18_RegisteredOnlyInFlight ==
  \A o \in OpIds :
    /\ o \in activePurges => InFlightPurge(o)
    /\ purge[o].state \in {"persisting", "done"} => o \notin activePurges

C18_StepDeregisters ==
  \A o \in OpIds :
    /\ (InFlightPurge(o) /\ ~InFlightPurge(o)') => o \notin activePurges'
    /\ (CancelStep(o) /\ HasExitCode(purge[o])) => o \notin activePurges'
    /\ (CancelStep(o) /\ purge[o].state \in {"persisting", "done"}) =>
         purge'[o].cancelAnswer = "not-found"
    /\ (o \in activePurges /\ o \notin activePurges') =>
         \A q \in OpIds \ {o} : (q \in activePurges <=> q \in activePurges')

C18_RegistryScoped == []C18_RegisteredOnlyInFlight /\ [][C18_StepDeregisters]_vars

\* One operation is finished, deregistered and was answered not-found while
\* the other is still registered.
C18_Witness ==
  \E o, q \in OpIds :
    /\ Finished(o)
    /\ o \notin activePurges
    /\ purge[o].cancelAnswer = "not-found"
    /\ q \in activePurges
    /\ purge[q].proc = "exited"

\* The positions of the events of the given kinds.
PositionsOf(events, kinds) == {k \in 1..Len(events) : events[k].event \in kinds}

\* C19: what the handlers of one operation send to the caller has at most one
\* start event, first of all; at most one terminal signal (end, error,
\* response or the error handed on), exactly one once the operation is
\* finished or its launch error was reported; the terminal signal comes after
\* every stdout/stderr event and nothing is sent after it.
C19_OneTerminalSignal ==
  \A o \in OpIds :
    LET events == purge[o].events
        terminals == PositionsOf(events, TerminalEvents)
    IN  /\ PositionsOf(events, {"start"}) \subseteq {1}
        /\ purge[o].wantsStream /\ purge[o].state # "idle" =>
             PositionsOf(events, {"start"}) = {1}
        /\ Cardinality(terminals) <= 1
        /\ (Finished(o) \/ purge[o].errorEmitted) => Cardinality(terminals) = 1
        /\ terminals \subseteq {Len(events)}

\* The decoded texts of the chunks that arrived on one stream, in order, one
\* after the other.
RECURSIVE TextOf(_, _)
TextOf(arrivals, stream) ==
  IF arrivals = << >> THEN << >>
  ELSE (IF Head(arrivals).stream = stream THEN DataToString(Head(arrivals).data)
        ELSE << >>) \o TextOf(Tail(arrivals), stream)

\* The stdout/stderr events among the events, in order.
RECURSIVE ChunkEventsOf(_)
ChunkEventsOf(events) ==
  IF events = << >> THEN << >>
  ELSE (IF Head(events).event \in {"stdout", "stderr"} THEN << Head(events) >>
        ELSE << >>) \o ChunkEventsOf(Tail(events))

\* C20: each stream's buffer holds the texts of the chunks that arrived on it,
\* in arrival order; a streaming operation has sent one stdout/stderr event
\* per chunk, in arrival order across both streams, each with the text of its
\* chunk, and a non-streaming one none; the stdout and stderr of the final
\* response, and the lengths in the audit entry, are those of the stream's
\* chunk texts put together in arrival order.
C20_ChunksInArrivalOrder ==
  \A o \in OpIds :
    LET p == purge[o]
        sent == ChunkEventsOf(p.events)
    IN  /\ Len(p.stdout) + Len(p.stderr) = Len(p.arrivals)
        /\ Join(p.stdout) = TextOf(p.arrivals, "stdout")
        /\ Join(p.stderr) = TextOf(p.arrivals, "stderr")
        /\ p.wantsStream =>
             /\ Len(sent) = Len(p.arrivals)
             /\ \A k \in 1..Len(sent) :
                  /\ sent[k].event = p.arrivals[k].stream
                  /\ sent[k].chunk = DataToString(p.arrivals[k].data)
        /\ ~p.wantsStream => sent = << >>
        /\ p.logEntry # << >> =>
             /\ p.logEntry[1].stdoutLength = Len(TextOf(p.arrivals, "stdout"))
             /\ p.logEntry[1].stderrLength = Len(TextOf(p.arrivals, "stderr"))
        /\ (Finished(o) /\ ~p.wantsStream) =>
             /\ p.events[Len(p.events)].stdout = TextOf(p.arrivals, "stdout")
             /\ p.events[Len(p.events)].stderr = TextOf(p.arrivals, "stderr")

\* A non-streaming operation finished after two different chunks on stdout.
C20_Witness ==
  \E o \in OpIds :
    /\ Finished(o)
    /\ ~purge[o].wantsStream
    /\ Len(purge[o].stdout) = 2
    /\ purge[o].stdout[1] # purge[o].stdout[2]
    /\ purge[o].events[Len(purge[o].events)].stdout = purge[o].stdout[1] \o purge[o].stdout[2]

\* C21 as stated: an operation whose executable cannot be launched is at no
\* point in the registry.
C21_NeverRegistered ==
  \A o \in OpIds : purge[o].proc = "unlaunchable" => o \notin activePurges

\* C21 amended: an operation whose executable cannot be launched is in the
\* registry only from its registration to its "error" event, which is handled
\* before any other event; a cancel request for its id never finds a context
\* (it is answered not-found and sets nothing), and the operation ends failed.
C21_RegisteredOnlyUntilError ==
  \A o \in OpIds :
    purge[o].proc = "unlaunchable" =>
      /\ o \in activePurges => (~purge[o].errorEmitted /\ ~NoTickPending)
      /\ purge[o].errorEmitted => o \notin activePurges
      /\ ~purge[o].cancelled
      /\ purge[o].cancelAnswer \in {"none", "not-found"}
      /\ purge[o].status \in {"none", "failed"}
      /\ Finished(o) => purge[o].status = "failed"

C21_StepCancelFindsNothing ==
  \A o \in OpIds :
    (CancelStep(o) /\ purge[o].proc = "unlaunchable") =>
      /\ ~HasContext(o)
      /\ purge'[o].cancelAnswer = "not-found"
      /\ ContextUntouched(o)
      /\ activePurges' = activePurges

C21_SpawnFailure == []C21_RegisteredOnlyUntilError /\ [][C21_StepCancelFindsNothing]_vars

\* An operation that could not be launched finished as failed and a cancel
\* request for it was answered not-found.
C21_Witness ==
  \E o \in OpIds :
    /\ purge[o].proc = "unlaunchable"
    /\ Finished(o)
    /\ purge[o].status = "failed"
    /\ purge[o].cancelAnswer = "not-found"

\* The chunks that arrived on stdout, as byte sequences, in order.
RECURSIVE StdoutArrivals(_)
StdoutArrivals(arrivals) ==
  IF arrivals = << >> THEN << >>
  ELSE (IF Head(arrivals).stream = "stdout" THEN << Head(arrivals).data >> ELSE << >>)
       \o StdoutArrivals(Tail(arrivals))

\* The output is made of whole report lines, the cut line arriving as its two
\* parts one right after the other.
WholeLines(chunks) ==
  \A k \in 1..Len(chunks) :
    /\ chunks[k] = ReportLine.mailboxUser2Head =>
         (k < Len(chunks) /\ chunks[k + 1] = ReportLine.mailboxUser2Tail)
    /\ chunks[k] = ReportLine.mailboxUser2Tail =>
         (k > 1 /\ chunks[k - 1] = ReportLine.mailboxUser2Head)

\* The addresses the report lines name with a mailbox count, in the summary
\* line, or with a non-zero deleted count.
NamedIn(chunks) ==
  UNION {IF chunks[k] \in {ReportLine.mailboxUser1, ReportLine.deletedUser1} THEN {User1}
         ELSE IF chunks[k] = ReportLine.effected THEN {User1, User2}
         ELSE IF chunks[k] = ReportLine.mailboxUser2Tail THEN {User2}
         ELSE {} : k \in 1..Len(chunks)}

\* C22: the affectedMailboxes of the audit entry has no address twice; for an
\* output of whole report lines it holds exactly the addresses those lines
\* name by any of the three patterns; stdout "[INFO] Mailbox user1@x.com: 3
\* active items" then "Deleted 3 items from user1@x.com" with exit code 0 and
\* simulate = false gives affectedMailboxes = <<user1@x.com>> and status
\* completed.
C22_AffectedMailboxes ==
  \A o \in OpIds :
    purge[o].logEntry # << >> =>
      LET entry == purge[o].logEntry[1]
          affected == entry.affectedMailboxes
          chunks == StdoutArrivals(purge[o].arrivals)
      IN  /\ \A k, l \in 1..Len(affected) : affected[k] = affected[l] => k = l
          /\ WholeLines(chunks) =>
               {affected[k] : k \in 1..Len(affected)} = NamedIn(chunks)
          /\ (/\ chunks = << ReportLine.mailboxUser1, ReportLine.deletedUser1 >>
              /\ purge[o].exitCode = 0
              /\ ~purge[o].simulate
              /\ ~purge[o].cancelled) =>
               /\ affected = << User1 >>
               /\ entry.status = "completed"

\* The scenario: both lines name user1@x.com, exit code 0, simulate = false,
\* and the entry is stored.
C22_Witness ==
  \E o \in OpIds :
    /\ Finished(o)
    /\ StdoutArrivals(purge[o].arrivals) = << ReportLine.mailboxUser1, ReportLine.deletedUser1 >>
    /\ purge[o].exitCode = 0
    /\ ~purge[o].simulate
    /\ EntriesOf(o) # {}
    /\ \A k \in EntriesOf(o) :
         /\ logStore[k].affectedMailboxes = << User1 >>
         /\ logStore[k].status = "completed"

\* The pieces of a query between the ' AND ' separators.
RECURSIVE SplitAnd(_)
SplitAnd(text) ==
  LET seps == {k \in 1..Len(text) : MatchesAt(text, k, ClauseText.separator)}
  IN  IF seps = {} THEN << text >>
      ELSE LET k == LeastOf(seps)
           IN  << SubSeq(text, 1, k - 1) >>
                 \o SplitAnd(SubSeq(text, k + Len(ClauseText.separator), Len(text)))

\* The place of a clause in the fixed order, read off its first characters.
ClauseRank(clause) ==
  IF MatchesAt(clause, 1, ClauseText.from) THEN 1
  ELSE IF MatchesAt(clause, 1, ClauseText.subject) THEN 2
  ELSE IF MatchesAt(clause, 1, ClauseText.body) THEN 3
  ELSE IF MatchesAt(clause, 1, << Quote >>) THEN 4
  ELSE IF MatchesAt(clause, 1, ClauseText.receivedAfter) THEN 5
  ELSE IF MatchesAt(clause, 1, ClauseText.receivedBefore) THEN 6
  ELSE IF MatchesAt(clause, 1, ClauseText.hasAttachment) THEN 7
  ELSE IF MatchesAt(clause, 1, ClauseText.importance) THEN 8
  ELSE 0

\* The ranks of the clauses a filter calls for: one per present field, one
\* per non-empty keyword, in the fixed order.
ExpectedRanks(f) ==
  (IF f.sender # << >> THEN << 1 >> ELSE << >>)
  \o (IF f.subject # << >> THEN << 2 >> ELSE << >>)
  \o (IF f.body # << >> THEN << 3 >> ELSE << >>)
  \o [j \in 1..Cardinality({k \in 1..Len(f.keywords) : f.keywords[k] # << >>}) |-> 4]
  \o (IF f.receivedFrom.given /\ f.receivedFrom.valid THEN << 5 >> ELSE << >>)
  \o (IF f.receivedTo.given /\ f.receivedTo.valid THEN << 6 >> ELSE << >>)
  \o (IF f.hasAttachments # << >> THEN << 7 >> ELSE << >>)
  \o (IF f.importance # << >> THEN << 8 >> ELSE << >>)

\* from:"a@x" AND subject:"a" AND received>=2024-01-01
ExampleQuery ==
  ClauseText.from \o << 97, 64, 120, Quote >> \o ClauseText.separator
    \o ClauseText.subject \o << 97, Quote >> \o ClauseText.separator
    \o ClauseText.receivedAfter \o << 50, 48, 50, 52, 45, 48, 49, 45, 48, 49 >>

ExampleFilter ==
  [sender |-> << 97, 64, 120 >>, subject |-> << 97 >>, body |-> << >>,
   keywords |-> << >>, receivedFrom |-> DateOf(2024, 1, 1, 0), receivedTo |-> NoDate,
   hasAttachments |-> << >>, importance |-> << >>]

\* C23: compiling the same filter again gives the same string; the clauses
\* of the query, read between the ' AND ' separators, are those of the
\* present fields in the order sender, subject, body, keywords (one term per
\* non-empty keyword), received-after, received-before, attachment flag,
\* importance; a filter none of whose fields applies gives the default
\* clause kind:email.
C23_FixedClauseOrder ==
  call.fn = "buildAqsQuery" =>
    \A k \in 1..Len(callReturns) :
      LET query == callReturns[k]
          clauses == SplitAnd(query)
      IN  /\ query = callReturns[1]
          /\ IF ExpectedRanks(call.args) = << >> THEN query = DEFAULT_QUERY
             ELSE [j \in 1..Len(clauses) |-> ClauseRank(clauses[j])]
                    = ExpectedRanks(call.args)
          /\ call.args = ExampleFilter => query = ExampleQuery

\* A filter with every field present and two keywords has been compiled twice.
C23_Witness ==
  /\ call.fn = "buildAqsQuery"
  /\ Len(callReturns) = 2
  /\ ExpectedRanks(call.args) = << 1, 2, 3, 4, 4, 5, 6, 7, 8 >>
  /\ Len(SplitAnd(callReturns[2])) = 9

\* How a reader of the query takes quoted terms, by the convention the
\* escaping relies on: a backslash takes the next character literally, so a
\* quote delimits a term when an even number of backslashes precedes it.
BackslashRun(text, k) ==
  (k - 1) - LeastOf({j \in 0..(k - 1) : \A i \in (j + 1)..(k - 1) : text[i] = Backslash})

Delimiters(text) ==
  {k \in 1..Len(text) : text[k] = Quote /\ BackslashRun(text, k) % 2 = 0}

NthOf(indices, n) == CHOOSE e \in indices : Cardinality({x \in indices : x < e}) = n - 1

RECURSIVE Unescape(_)
Unescape(text) ==
  IF text = << >> THEN << >>
  ELSE IF Head(text) = Backslash /\ Len(text) > 1
         THEN << text[2] >> \o Unescape(Tail(Tail(text)))
         ELSE << Head(text) >> \o Unescape(Tail(text))

\* The n-th quoted term of the query, as the reader takes it.
QuotedTerm(text, n) ==
  Unescape(SubSeq(text, NthOf(Delimiters(text), 2 * n - 1) + 1,
                  NthOf(Delimiters(text), 2 * n) - 1))

\* The values of a filter that are put between quotes, in clause order.
RECURSIVE NonEmpty(_)
NonEmpty(texts) ==
  IF texts = << >> THEN << >>
  ELSE (IF Head(texts) = << >> THEN << >> ELSE << Head(texts) >>) \o NonEmpty(Tail(texts))

QuotedValues(f) == NonEmpty(<< f.sender, f.subject, f.body >>) \o NonEmpty(f.keywords)

\* C24: every sender, subject, body or keyword value, values with quote and
\* backslash characters included, occupies exactly one quoted term of the
\* compiled query: the query has as many quoted terms as the filter has
\* quoted values, the n-th term read back is the n-th value, and the clauses
\* are those of the present fields whatever the values contain.
C24_OneQuotedTermPerValue ==
  call.fn = "buildAqsQuery" =>
    \A k \in 1..Len(callReturns) :
      LET query == callReturns[k]
          values == QuotedValues(call.args)
      IN  /\ Cardinality(Delimiters(query)) = 2 * Len(values)
          /\ \A n \in 1..Len(values) : QuotedTerm(query, n) = values[n]

\* The same for the filters none of whose values holds a backslash.
C24_WithoutBackslashes ==
  (\A n \in 1..Len(QuotedValues(call.args)) :
     \A i \in 1..Len(QuotedValues(call.args)[n]) :
       QuotedValues(call.args)[n][i] # Backslash)
    => C24_OneQuotedTermPerValue

\* The request names a folder that is not in the folder mapping.
NamesUnmappedFolder == op # "none" /\ ResolveFoldersThrows(args.folders)

\* C25: a search or delete request naming a folder that is not in the folder
\* mapping is rejected with the unsupported-folder error before any remote
\* call: the enumeration call is never in flight for it, and no session,
\* find or delete call is made.
C25_RejectedBeforeAnyRemoteCall ==
  NamesUnmappedFolder =>
    /\ phase = "rejected"
    /\ response = ErrorResponse(400, "Unsupported folder specified")
    /\ task = << >>
    /\ deleteCalls = << >>

\* What does hold for such a request: no job is created, so no session, find
\* or delete call is made for any mailbox.
C25_NoMailboxCall ==
  NamesUnmappedFolder => (task = << >> /\ deleteCalls = << >> /\ phase # "running")

\* Some handler or event of operation a takes a step.
EventOf(a) ==
  \/ \E sim \in BOOLEAN, stream \in BOOLEAN, launchable \in BOOLEAN :
       StartPurge(a, sim, stream, launchable)
  \/ \E accepted \in BOOLEAN : CancelRequest(a, accepted)
  \/ \E accepted \in BOOLEAN : ClientDisconnect(a, accepted)
  \/ \E code \in ExitCodes : ProcessExits(a, code)
  \/ ProcessKilled(a)
  \/ \E data \in ChunkData : StdoutData(a, data) \/ StderrData(a, data)
  \/ ChildError(a)
  \/ ChildClose(a)
  \/ \E stored \in BOOLEAN : AppendLogEntrySettles(a, stored)

\* The audit entries of operation o, in the order they were stored.
AuditEntriesOf(o) == SelectSeq(logStore, LAMBDA entry : entry.requestId = o)

\* The step leaves everything of operation b as it was: its context (flag,
\* reason, buffered output, status, signals to its process, events), its
\* place in the registry and its audit entries.
Untouched(b) ==
  /\ purge'[b] = purge[b]
  /\ (b \in activePurges') = (b \in activePurges)
  /\ AuditEntriesOf(b)' = AuditEntriesOf(b)

C26_StepIsolated ==
  \A a, b \in OpIds : (a # b /\ EventOf(a)) => Untouched(b)

\* An id that has been used is not given to another request.
C26_StepOneContextPerId ==
  \A o \in OpIds : purge[o].state # "idle" => purge'[o].state # "idle"

\* C26: a cancel request, connection close, launch error, exit or output
\* chunk of one purge operation changes nothing of another: not its registry
\* entry, cancelled flag, cancelReason, buffered output, status or audit
\* entry, and it sends no signal to the other's process; an operation id
\* stands for one context for as long as the operation lives.
C26_Isolated == [][C26_StepIsolated]_vars /\ [][C26_StepOneContextPerId]_vars

\* Operation op-1 was cancelled, killed and stored as cancelled while op-2,
\* started before the cancel, received a chunk and completed untouched.
C26_Witness ==
  /\ Finished("op-1") /\ purge["op-1"].status = "cancelled"
  /\ Finished("op-2") /\ purge["op-2"].status = "completed"
  /\ ~purge["op-2"].cancelled /\ purge["op-2"].killCalls = 0
  /\ Len(purge["op-2"].stdout) = 1
  /\ Len(AuditEntriesOf("op-1")) = 1 /\ Len(AuditEntriesOf("op-2")) = 1

\* The parameters of the script and of powershell.exe that take a value.
ValueTaking ==
  {"-ExecutionPolicy", "-File", "-SenderEmail", "-Method", "-DaysBack", "-SubjectEqual",
   "-SubjectContains", "-FromDate", "-ToDate", "-LogFile"}

\* Element k of the vector stands in parameter position: it does not follow
\* a value-taking parameter as its value.
RECURSIVE InParameterPosition(_, _)
InParameterPosition(argv, k) ==
  \/ k = 1
  \/ ~(InParameterPosition(argv, k - 1) /\ argv[k - 1] \in ValueTaking)

\* How often the vector holds the parameter or flag.
Occurrences(argv, name) ==
  Cardinality({k \in 1..Len(argv) : argv[k] = name /\ InParameterPosition(argv, k)})

\* C27: the argument vector has the dry-run flag -WhatIf and no -AutoConfirm
\* when simulate is true or omitted, -AutoConfirm and no -WhatIf when it is
\* false; at most one of -SubjectEqual and -SubjectContains; and
\* -AllowHardDelete exactly when allowHardDelete is true.
C27_ExactlyOneModeFlag ==
  call.fn = "purge-sender" =>
    \A k \in 1..Len(callReturns) :
      callReturns[k].kind = "spawn" =>
        LET argv == callReturns[k].scriptArgs
        IN  /\ Occurrences(argv, "-WhatIf") = (IF call.args.simulate = "false" THEN 0 ELSE 1)
            /\ Occurrences(argv, "-AutoConfirm") = (IF call.args.simulate = "false" THEN 1 ELSE 0)
            /\ Occurrences(argv, "-SubjectEqual") + Occurrences(argv, "-SubjectContains") <= 1
            /\ Occurrences(argv, "-AllowHardDelete")
                 = (IF call.args.allowHardDelete = "true" THEN 1 ELSE 0)

\* A request with simulate false, allowHardDelete true and a subject-contains
\* value was spawned.
C27_Witness ==
  /\ call.fn = "purge-sender"
  /\ call.args.simulate = "false"
  /\ call.args.allowHardDelete = "true"
  /\ call.args.subjectContains = "Invoice"
  /\ Len(callReturns) = 1
  /\ callReturns[1].kind = "spawn"
  /\ Occurrences(callReturns[1].scriptArgs, "-AutoConfirm") = 1
  /\ Occurrences(callReturns[1].scriptArgs, "-SubjectContains") = 1

\* The body names one of the three delete modes.
NamesDeleteMode(body) ==
  /\ "deleteMode" \in DOMAIN body
  /\ body.deleteMode \in {"softDelete", "moveToDeletedItems", "hardDelete"}

\* The mode the body asks for is the one given to the bulk delete call and
\* the one summary.mode reports.
ModeHonoured(body, result) ==
  /\ result.mode = DELETE_MODE_MAP[ModeKey(body.deleteMode)]
  /\ result.summaryMode = ModeKey(body.deleteMode)

\* C28: for a delete request to POST /delete whose body names deleteMode
\* softDelete, moveToDeletedItems or hardDelete, the bulk delete call uses
\* that mode and summary.mode reports it.
C28_RouteHonoursDeleteMode ==
  (call.fn = "POST /delete" /\ NamesDeleteMode(call.args)) =>
    \A k \in 1..Len(callReturns) :
      callReturns[k].kind = "ok" => ModeHonoured(call.args, callReturns[k])

\* The same for deleteMessages called with the filters directly.
C28_ServiceHonoursDeleteMode ==
  (call.fn = "deleteMessages" /\ NamesDeleteMode(call.args)) =>
    \A k \in 1..Len(callReturns) : ModeHonoured(call.args, callReturns[k])

\* The place of the folder a match came from in the resolved folder list.
FolderIndexOf(match) ==
  CHOOSE k \in 1..Len(resolvedFolders) : resolvedFolders[k].name = match.folder

\* C29, while a scan is in flight: the resolved folders are the caller's (or
\* the default) list in its order; the job scans one folder of that list,
\* every match it holds comes from an earlier folder, the limit is not yet
\* reached, and the scan asks for and keeps no more than limit minus the
\* matches so far.
C29_ScanWithinCapacity ==
  \A i \in DOMAIN task :
    task[i].pc = "FindItems" =>
      LET t == task[i]
          capacity == limit - Len(t.matches)
      IN  /\ [k \in 1..Len(resolvedFolders) |-> resolvedFolders[k].name]
               = TargetFolders(args.folders)
          /\ t.folder \in 1..Len(resolvedFolders)
          /\ \A m \in 1..Len(t.matches) : FolderIndexOf(t.matches[m]) < t.folder
          /\ capacity >= 1
          /\ t.view.size <= capacity - Len(t.items)
          /\ Len(t.items) < capacity

\* C29, step by step: a job moves to a scan of another folder only from the
\* folder just before it (from none to the first), starting with a page of
\* at most the remaining capacity; once its matches reach the limit it scans
\* no further folder.
C29_StepNextFolderInOrder ==
  \A i \in DOMAIN task :
    /\ (i \in DOMAIN task' /\ task'[i].pc = "FindItems" /\ task'[i].folder # task[i].folder) =>
         /\ task'[i].folder = task[i].folder + 1
         /\ task[i].pc \in {"createService", "FindItems"}
         /\ task'[i].items = << >>
         /\ task'[i].view.size = Min(limit - Len(task'[i].matches), ConfigPageSize)
    /\ (i \in DOMAIN task' /\ Len(task'[i].matches) >= limit) => task'[i].pc # "FindItems"

IdsOf(matches) == [m \in 1..Len(matches) |-> matches[m].id]

\* C30, in every state: a mailbox has at most one bulk delete call; it has
\* one only in a delete request with simulate = false, when its folder scans
\* are over, with a non-empty id list that is exactly the ids of the matches
\* collected for it, which are the matches reported when the job returns;
\* a job that returned matches with simulate = false made the call.
C30_OneDeleteCallInState ==
  \A i \in DOMAIN deleteCalls :
    /\ Len(deleteCalls[i]) <= 1
    /\ Len(deleteCalls[i]) = 1 =>
         /\ op = "delete" /\ ~simulate
         /\ task[i].pc \in {"DeleteItems", "settled"}
         /\ Len(deleteCalls[i][1]) >= 1
         /\ task[i].pc = "DeleteItems" => deleteCalls[i][1] = IdsOf(task[i].matches)
         /\ task[i].settledBy = "return" =>
              /\ task[i].result.kind = "object"
              /\ IdsOf(task[i].result.matches) = deleteCalls[i][1]
    /\ (op = "delete" /\ ~simulate /\ task[i].settledBy = "return"
        /\ task[i].result.kind = "object") => Len(deleteCalls[i]) = 1
    /\ (op = "search" \/ simulate) => Len(deleteCalls[i]) = 0

\* C30, step by step: the call is issued by the step that ends the last
\* folder scan of the job, and no scan follows it.
C30_StepDeleteAfterScans ==
  \A i \in DOMAIN deleteCalls :
    (i \in DOMAIN deleteCalls' /\ deleteCalls'[i] # deleteCalls[i]) =>
      /\ task[i].pc = "FindItems"
      /\ task'[i].pc = "DeleteItems"
      /\ \/ task[i].folder = Len(resolvedFolders)
         \/ Len(task'[i].matches) >= limit

\* C30: with simulate = false at most one bulk delete call is issued per
\* mailbox per request, only after all of that mailbox's folder scans have
\* finished, only when at least one item was collected, and with exactly
\* the ids of the reported matches.
C30_OneDeleteCall == []C30_OneDeleteCallInState /\ [][C30_StepDeleteAfterScans]_vars

\* A job of a delete request with simulate = false collected matches from
\* two folders, made its one call and returned them.
C30_Witness ==
  \E i \in DOMAIN deleteCalls :
    /\ op = "delete" /\ ~simulate
    /\ task[i].settledBy = "return"
    /\ Len(deleteCalls[i]) = 1
    /\ Len(deleteCalls[i][1]) >= 2
    /\ \E m, n \in 1..Len(task[i].result.matches) :
         task[i].result.matches[m].folder # task[i].result.matches[n].folder

\* Job i is inside the scan of folder k of the resolved list.
ScanningFolder(i, k) ==
  /\ i \in DOMAIN task
  /\ task[i].pc = "FindItems"
  /\ task[i].folder = k

\* C31: a folder scan terminates: given that every find call returns or
\* throws, a job that is scanning a folder eventually leaves that scan,
\* whatever pages the remote answers with, empty pages that report more
\* available included.
C31_ScanTerminates ==
  \A i \in 1..MaxMailboxes : \A k \in 1..Len(DefaultFolders) :
    ScanningFolder(i, k) ~> ~ScanningFolder(i, k)

\* Job i has a find or a bulk delete call in flight.
CallInFlight(i) == task[i].pc \in {"FindItems", "DeleteItems"}

\* C32: every find or bulk delete call of a mailbox job is in flight on the
\* session that job created, impersonating that job's mailbox address, and
\* no other job holds that session: no call for one mailbox runs under the
\* impersonation of another.
C32_OwnSession ==
  \A i \in DOMAIN task :
    CallInFlight(i) =>
      /\ task[i].session.id = i
      /\ task[i].session.impersonatedUserId = mailboxes[i]
      /\ \A j \in DOMAIN task \ {i} :
           /\ task[j].session.id # task[i].session.id
           /\ CallInFlight(j) =>
                task[j].session.impersonatedUserId # task[i].session.impersonatedUserId

\* Two jobs have calls in flight at the same time, one of them a delete call.
C32_Witness ==
  \E i, j \in DOMAIN task :
    /\ i # j
    /\ task[i].pc = "FindItems"
    /\ task[j].pc = "DeleteItems"

\* C33: results are in the code-unit order of the mailbox address: of two
\* outcomes the one whose address is smaller in plain string comparison (an
\* upper-case letter before every lower-case letter) comes first.
C33_CodeUnitOrder ==
  Fanned =>
    \A p, q \in 1..Len(response.results) :
      CompareCodeUnits(response.results[p].mailbox, response.results[q].mailbox, 1) < 0
        => p < q

\* The messages of the errors thrown before the delete call of a job: by
\* createService and by findItemsInFolder.
ScanFailureMessages ==
  {"Failed to initialise Exchange Web Services client", "Failed to search mailbox folder"}

\* C34, in every state: a job of a delete request that ended in its catch
\* block with a session or scan error has no bulk delete call, and in the
\* returned aggregate its mailbox is in failures and not in results.
C34_NoDeleteAfterScanFailureInState ==
  op = "delete" =>
    \A i \in DOMAIN task :
      (task[i].settledBy = "catch" /\ task[i].result.error \in ScanFailureMessages) =>
        /\ deleteCalls[i] = << >>
        /\ Fanned => /\ FailureIndexOf(mailboxes[i]) # {}
                     /\ ResultIndexOf(mailboxes[i]) = {}

\* C34, step by step: a job that fails while its session is created or a
\* folder is scanned ends in the catch block with that error, whatever it
\* had collected; the value it settles with carries no matches, and a job
\* that has settled is never given a delete call.
C34_StepFailureDiscardsItems ==
  op = "delete" =>
    \A i \in DOMAIN task :
      i \in DOMAIN task' =>
        /\ (task[i].pc \in {"createService", "FindItems"} /\ task'[i].settledBy = "catch") =>
             /\ task'[i].result.error \in ScanFailureMessages
             /\ "matches" \notin DOMAIN task'[i].result
             /\ deleteCalls'[i] = << >>
        /\ task[i].pc = "settled" => (task'[i] = task[i] /\ deleteCalls'[i] = deleteCalls[i])

\* C34: deletion for a mailbox is all-or-nothing with respect to scanning:
\* if session creation or any folder scan fails during a delete request, no
\* bulk delete call is made for that mailbox, the items collected before the
\* failure are neither deleted nor reported, and the mailbox appears only
\* in failures.
C34_NoDeleteAfterScanFailure ==
  []C34_NoDeleteAfterScanFailureInState /\ [][C34_StepFailureDiscardsItems]_vars

\* A delete request with simulate = false has returned: the scan of one
\* mailbox failed and it is listed in failures without a delete call, while
\* another mailbox was scanned and deleted from.
C34_Witness ==
  /\ Fanned /\ op = "delete" /\ ~simulate
  /\ \E i, j \in DOMAIN task :
       /\ task[i].settledBy = "catch"
       /\ task[i].result.error = "Failed to search mailbox folder"
       /\ deleteCalls[i] = << >>
       /\ FailureIndexOf(mailboxes[i]) # {}
       /\ Len(deleteCalls[j]) = 1
       /\ ResultIndexOf(mailboxes[j]) # {}

(***************************************************************************)
(* searchMessages and deleteMessages compiling one filter: the query each  *)
(* hands to its mailbox jobs and the per-mailbox limit each applies.       *)
(***************************************************************************)
\* const query = buildAqsQuery({ ... }): searchMessages passes the eight
\* fields of the filter, deleteMessages passes sender, subject, body and the
\* two dates, so the other three parameters are undefined there.
CompiledQuery(opName, filters) ==
  IF opName = "search"
  THEN buildAqsQuery(filters)
  ELSE buildAqsQuery([filters EXCEPT !.keywords = << >>,
                                     !.hasAttachments = << >>,
                                     !.importance = << >>])

CompileInit ==
  /\ maxConcurrency = 1
  /\ EngineInit
  /\ PurgeInit
  /\ call \in {[fn |-> "compile", args |-> [filters |-> f, maxPerMailbox |-> m]] :
                 f \in Filters, m \in {0, SearchLimitCap, DeleteLimitCap}}
  /\ callReturns = << >>
  /\ clock = 0
  /\ ui = NewDeleteSection

\* The filter is compiled by searchMessages (the preview), then by
\* deleteMessages.
CompileCall ==
  /\ call.fn = "compile"
  /\ Len(callReturns) < 2
  /\ LET opName == IF Len(callReturns) = 0 THEN "search" ELSE "delete"
     IN  callReturns' = Append(callReturns,
                               [query |-> CompiledQuery(opName, call.args.filters),
                                limit |-> LimitFor(opName, call.args.maxPerMailbox)])
  /\ UNCHANGED << engineVars, purgeVars, call, clock, ui >>

CompileSpec == CompileInit /\ [][CompileCall]_vars

\* C35: for every filter the query string deleteMessages compiles equals the
\* query string searchMessages compiles, and both apply the same per-mailbox
\* limit.
C35_SameQueryAndLimit ==
  (call.fn = "compile" /\ Len(callReturns) = 2) =>
    /\ callReturns[1].query = callReturns[2].query
    /\ callReturns[1].limit = callReturns[2].limit

(***************************************************************************)
(* Two purge requests and the clock their log-file names are taken from.   *)
(***************************************************************************)
\* A millisecond passes.
ClockTick ==
  /\ clock < MaxClock
  /\ clock' = clock + 1
  /\ UNCHANGED << engineVars, purgeVars, call, callReturns, ui >>

LogFileNext ==
  \/ ClockTick
  \/ \E o \in OpIds : StartPurge(o, TRUE, FALSE, TRUE)
  \/ \E o \in OpIds, code \in ExitCodes : ProcessExits(o, code)
  \/ \E o \in OpIds : ChildClose(o)
  \/ \E o \in OpIds : AppendLogEntrySettles(o, TRUE)

LogFileSpec == PurgeSpecInit /\ [][LogFileNext]_vars

\* The operation is in flight: registered, its process not yet closed.
PurgeInFlight(o) == o \in activePurges /\ purge[o].state = "spawned"

\* C36: any two purge operations in flight at the same time were given
\* distinct log-file paths.
C36_DistinctLogFiles ==
  \A o1, o2 \in OpIds :
    (o1 # o2 /\ PurgeInFlight(o1) /\ PurgeInFlight(o2)) =>
      purge[o1].logPath # purge[o2].logPath

\* The start event of operation o has been emitted.
StartEmitted(o) == \E k \in 1..Len(purge[o].events) : purge[o].events[k] = Event("start")

\* The operation has made its terminal transition: the close handler, or the
\* handler of the launch error, has run.
TerminalReached(o) == purge[o].state \in {"persisting", "done"} \/ purge[o].errorEmitted

\* C37, as stated: once the start event of an operation has been emitted, a
\* cancel request finds no registered context with a process handle (and is
\* answered not-found) only if the operation has reached its terminal
\* transition.
C37_NotFoundOnlyAfterTerminal ==
  \A o \in OpIds : (StartEmitted(o) /\ ~HasContext(o)) => TerminalReached(o)

\* C37, in every state: once the start event has been emitted, the context
\* is missing from the registry only if the operation has reached its
\* terminal transition, or its process has ended with an exit code (a cancel
\* request that found it so removed the context).
C37_RegisteredOnceAnnouncedInState ==
  \A o \in OpIds :
    (StartEmitted(o) /\ ~HasContext(o)) =>
      \/ TerminalReached(o)
      \/ purge[o].proc = "exited" /\ HasExitCode(purge[o])

\* C37, step by step: the step that emits the start event leaves the id
\* registered with its process handle, and a cancel request is answered
\* not-found exactly when it finds no such context.
C37_StepRegisteredAtStart ==
  \A o \in OpIds :
    /\ (~StartEmitted(o) /\ StartEmitted(o)') => HasContext(o)'
    /\ (purge'[o].cancelAnswer # purge[o].cancelAnswer
        /\ purge'[o].cancelAnswer = "not-found") => ~HasContext(o)

\* C37: the operation is registered, with its process handle, when its start
\* event is emitted, and a later cancel request is answered not-found only
\* if the operation has reached its terminal transition or its process has
\* already ended with an exit code.
C37_RegisteredOnceAnnounced ==
  []C37_RegisteredOnceAnnouncedInState /\ [][C37_StepRegisteredAtStart]_vars

\* A streaming operation was announced, its process ended, and a cancel
\* request was answered not-found before the close handler ran.
C37_Witness ==
  \E o \in OpIds :
    /\ StartEmitted(o)
    /\ o \notin activePurges
    /\ purge[o].cancelAnswer = "not-found"
    /\ purge[o].state = "spawned"
    /\ purge[o].proc = "exited"
    /\ ~purge[o].errorEmitted

\* The cancellation fields of a terminal report agree with each other.
CancellationConsistent(r) ==
  /\ r.cancelled <=> r.cancelReason # "null"
  /\ r.cancelled <=> r.status = "cancelled"

\* The end events and synchronous responses operation o has produced.
TerminalReportsOf(o) ==
  { purge[o].events[k] : k \in { n \in 1..Len(purge[o].events) :
                                   purge[o].events[n].event \in {"end", "response"} } }

\* C38: in every persisted audit entry, end event and synchronous response,
\* cancelled is true if and only if cancelReason is non-null, and if and
\* only if status is 'cancelled'.
C38_CancellationFieldsConsistent ==
  /\ \A k \in 1..Len(logStore) : CancellationConsistent(logStore[k])
  /\ \A o \in OpIds : \A r \in TerminalReportsOf(o) :
       CancellationConsistent(r) /\ CancellationConsistent(r.logEntry)

\* C38 for the operations whose process is ended by a signal only through
\* the route's own call of kill().
C38_ConsistentUnlessForeignSignal ==
  \A o \in OpIds :
    (purge[o].signalCode # "null" => purge[o].signalled) =>
      /\ \A k \in EntriesOf(o) : CancellationConsistent(logStore[k])
      /\ \A r \in TerminalReportsOf(o) :
           CancellationConsistent(r) /\ CancellationConsistent(r.logEntry)

\* The connection of a non-streaming operation has closed.
ClosedNonStreaming(o) ==
  purge[o].state # "idle" /\ ~purge[o].wantsStream /\ ~purge[o].connected

\* C39, in every state: a non-streaming operation is cancelled by an explicit
\* cancel request only, and one that ends uncancelled after its connection
\* closed has the status its exit code decides and hands its audit entry to
\* the log.
C39_NonStreamingInState ==
  \A o \in OpIds :
    (purge[o].state # "idle" /\ ~purge[o].wantsStream) =>
      /\ purge[o].cancelled => purge[o].cancelReason = "user_requested"
      /\ ~purge[o].cancelled => purge[o].cancelReason = "null"
      /\ (ClosedNonStreaming(o) /\ purge[o].state = "done" /\ ~purge[o].cancelled) =>
           /\ purge[o].status = StatusOf(FALSE, ExitCodeOf(purge[o].exitCode),
                                         purge[o].simulate)
           /\ Len(purge[o].logEntry) = 1
           /\ purge[o].logEntry[1].cancelled = FALSE
           /\ \A k \in EntriesOf(o) : ~logStore[k].cancelled

\* C39, step by step: the step in which the connection of a non-streaming
\* operation closes leaves the flag, the reason and the process as they
\* were and makes no call of kill().
C39_StepCloseLeavesOperation ==
  \A o \in OpIds :
    (~purge[o].wantsStream /\ purge[o].connected /\ ~purge'[o].connected) =>
      /\ purge'[o].cancelled = purge[o].cancelled
      /\ purge'[o].cancelReason = purge[o].cancelReason
      /\ purge'[o].signalled = purge[o].signalled
      /\ purge'[o].proc = purge[o].proc
      /\ purge'[o].killCalls = 0
      /\ activePurges' = activePurges

mapFormToScriptPayload(values) ==
  [senderEmail |-> Trim(values.sender),
   simulate |-> values.simulate,
   method |-> "ComplianceSearch",
   daysBack |-> 30,
   allowHardDelete |-> ~values.simulate /\ values.deletionMode = "hard",
   subjectContains |-> IF values.subject # << >> /\ values.subjectMode = "contains"
                       THEN Trim(values.subject) ELSE << >>,
   subjectEqual |-> IF values.subject # << >> /\ values.subjectMode = "equals"
                    THEN Trim(values.subject) ELSE << >>]

\* Variant: the confirm button is enabled whatever was typed.
confirmationReady_Always(confirmationInput) == TRUE

\* confirmationInput.trim().toUpperCase() === "DELETE"
confirmationReady(confirmationInput) ==
  LET ToUpperCase(text) ==
        [k \in 1..Len(text) |-> IF text[k] \in 97..122 THEN text[k] - 32 ELSE text[k]]
  IN  ToUpperCase(Trim(confirmationInput)) = << 68, 69, 76, 69, LetterT, 69 >>

\* executePurge(values): the preview search for a simulation, and the purge
\* request with the script payload.
executePurge(section, values) ==
  LET previewPayload ==
        [sender |-> Trim(values.sender),
         maxPerMailbox |-> 500,
         subject |-> IF values.subject # << >> /\ values.subjectMode # "none"
                     THEN Trim(values.subject) ELSE << >>]
  IN  [section EXCEPT
         !.previews = IF values.simulate THEN Append(@, previewPayload) ELSE @,
         !.requests = Append(@, mapFormToScriptPayload(values))]

\* onSubmit(values): a live run opens the dialog, a simulation is executed.
onSubmit(values) ==
  /\ Len(ui.requests) < MaxCalls
  /\ ui' = IF ~values.simulate
           THEN [ui EXCEPT !.confirmationState = [isOpen |-> TRUE, values |-> << values >>],
                           !.confirmationInput = << >>,
                           !.handler = "onSubmit"]
           ELSE [executePurge(ui, values) EXCEPT !.handler = "onSubmit"]
  /\ UNCHANGED << engineVars, purgeVars, call, callReturns, clock >>

\* onChange of the dialog's input: setConfirmationInput(event.target.value)
setConfirmationInput(text) ==
  /\ ui.confirmationState.isOpen
  /\ ui' = [ui EXCEPT !.confirmationInput = text, !.handler = "onChange"]
  /\ UNCHANGED << engineVars, purgeVars, call, callReturns, clock >>

\* onClick of the confirm button, which is disabled unless confirmationReady.
handleConfirmDeletion ==
  /\ ui.confirmationState.isOpen
  /\ confirmationReady(ui.confirmationInput)
  /\ Len(ui.requests) < MaxCalls
  /\ ui' = IF ui.confirmationState.values = << >>
           THEN [ui EXCEPT !.handler = "handleConfirmDeletion"]
           ELSE [executePurge([ui EXCEPT
                                 !.confirmationState = [isOpen |-> FALSE, values |-> << >>],
                                 !.confirmationInput = << >>],
                              ui.confirmationState.values[1])
                   EXCEPT !.handler = "handleConfirmDeletion"]
  /\ UNCHANGED << engineVars, purgeVars, call, callReturns, clock >>

\* onClick of the Back button.
handleDismissConfirmation ==
  /\ ui.confirmationState.isOpen
  /\ ui' = [ui EXCEPT !.confirmationState = [isOpen |-> FALSE, values |-> << >>],
                      !.confirmationInput = << >>,
                      !.handler = "handleDismissConfirmation"]
  /\ UNCHANGED << engineVars, purgeVars, call, callReturns, clock >>

\* The forms a user may submit (hard mode can stay selected while simulate is
\* ticked) and the texts a user may type into the dialog.
UiNext ==
  LET FormValues ==
        [sender : { << 32, 97, 64, 120 >> },
         subject : { << >>, << 115, 32 >> },
         subjectMode : { "contains", "equals" },
         simulate : BOOLEAN,
         deletionMode : { "soft", "hard" }]
      TypedTexts ==
        { << >>,
          << 68, 69, 76, 69, LetterT, 69 >>,
          << 32, 100, 101, 108, 101, 116, 101, 32 >>,
          << 68, 69, 76, 69, LetterT >>,
          << 68, 69, 76, 32, 69, LetterT, 69 >> }
  IN  \/ \E values \in FormValues : onSubmit(values)
      \/ \E text \in TypedTexts : setConfirmationInput(text)
      \/ handleConfirmDeletion
      \/ handleDismissConfirmation

UiSpec == PurgeSpecInit /\ [][UiNext]_vars

\* The text is DELETE once surrounding blanks are dropped, in any letter case.
SaysDelete(text) ==
  LET word == << 68, 69, 76, 69, LetterT, 69 >>
      t == Trim(text)
  IN  /\ Len(t) = Len(word)
      /\ \A k \in 1..Len(word) : t[k] \in {word[k], word[k] + 32}

\* C40, in every state: no payload sent has allowHardDelete together with
\* simulate.
C40_PayloadsInState ==
  \A k \in 1..Len(ui.requests) :
    ui.requests[k].allowHardDelete => ~ui.requests[k].simulate

\* C40, step by step: a live request is sent only by the confirm handler,
\* with the dialog open on the submitted values and DELETE typed, and its
\* allowHardDelete tells whether hard mode was selected; a simulation is
\* sent by the submit handler without allowHardDelete; dismissing the dialog
\* closes it and sends nothing.
C40_StepSendAfterConfirmation ==
  /\ ui'.requests # ui.requests =>
       /\ Len(ui'.requests) = Len(ui.requests) + 1
       /\ SubSeq(ui'.requests, 1, Len(ui.requests)) = ui.requests
       /\ LET r == ui'.requests[Len(ui'.requests)]
          IN  IF ~r.simulate
              THEN /\ ui'.handler = "handleConfirmDeletion"
                   /\ ui.confirmationState.isOpen
                   /\ ui.confirmationState.values # << >>
                   /\ ~ui.confirmationState.values[1].simulate
                   /\ r = mapFormToScriptPayload(ui.confirmationState.values[1])
                   /\ r.allowHardDelete <=>
                        ui.confirmationState.values[1].deletionMode = "hard"
                   /\ SaysDelete(ui.confirmationInput)
              ELSE /\ ui'.handler = "onSubmit"
                   /\ ~r.allowHardDelete
  /\ (ui' # ui /\ ui'.handler = "handleDismissConfirmation") =>
       /\ ui'.requests = ui.requests
       /\ ui'.previews = ui.previews
       /\ ~ui'.confirmationState.isOpen

\* C40: a live purge request is sent only after the confirmation dialog was
\* opened for that submission and the typed confirmation equals DELETE
\* (trimmed, case-insensitive); dismissing the dialog sends nothing; every
\* payload has allowHardDelete = true only when simulate is false and the
\* hard deletion mode is selected.
C40_LiveOnlyAfterConfirmation ==
  []C40_PayloadsInState /\ [][C40_StepSendAfterConfirmation]_vars

\* A live request with hard deletion was sent through the confirm handler
\* after a simulation of the same form had been sent.
C40_Witness ==
  /\ ui.handler = "handleConfirmDeletion"
  /\ \E j, k \in 1..Len(ui.requests) :
       /\ j < k
       /\ ui.requests[j].simulate /\ ~ui.requests[j].allowHardDelete
       /\ ~ui.requests[k].simulate /\ ui.requests[k].allowHardDelete

====
